---- MODULE Spec2Model ----
(***************************************************************************)
(* wechat-publisher-mcp: the OAuth authorization and token lifecycle       *)
(* (src/src/auth/OAuthProvider.js), the sessions of the HTTP server        *)
(* (src/src/server.js) and the content-platform client                     *)
(* (src/src/services/WeChatAPI.js).                                        *)
(*                                                                         *)
(* One provider object (codes, tokens, tokensLoaded) with its client       *)
(* registry (clients, loaded), the token file and the client file on       *)
(* disk, the session map of the server, one content-platform client with   *)
(* its credential cache, and a bounded number of requests in flight.  A    *)
(* request runs synchronously up to each `await` on file I/O or on the     *)
(* network; the awaits are the only points where other requests, timers    *)
(* or a process exit interleave.                                           *)
(* Times are in seconds (Date.now() is in milliseconds; every duration of  *)
(* the program is a whole number of seconds).                              *)
(***************************************************************************)
EXTENDS Integers, Sequences, FiniteSets, TLC

\* ---- bounds of the model ------------------------------------------------
MaxProcs == 2
MaxCodes == 2
MaxTokens == 4
MaxTicks == 1
MaxRestarts == 1
MaxDataCodes == 1
MaxDataTokens == 3
MaxSessions == 2
MaxApiTicks == 2
MaxCalls == 4

\* ---- program constants --------------------------------------------------
CodeTTL == 10 * 60
AccessTTL == 3600
RefreshTTL == 30 * 24 * 3600

Procs == 1 .. MaxProcs
Clients == {"c1", "c2"}

\* JavaScript undefined, for token values and for a resource
Undefined == 0
NoResource == "undefined"

\* ---- Map helpers (JavaScript Map set / delete) ---------------------------
EmptyMap == [k \in {} |-> 0]
MapSet(m, k, v) == [x \in (DOMAIN m) \cup {k} |-> IF x = k THEN v ELSE m[x]]
MapDelete(m, k) == [x \in (DOMAIN m) \ {k} |-> m[x]]

VARIABLES
  codes,         \* this.codes: code -> [client, scopes, resource, createdAt]
  tokens,        \* this.tokens: token -> token data
  tokensLoaded,  \* this.tokensLoaded
  file,          \* the token file: [exists, whole, size, tokens]
  now,           \* the clock
  nextCode,      \* next value randomUUID() returns for a code
  nextId,        \* next value randomUUID() returns for a token
  pc,            \* per request slot: where the request is suspended
  req,           \* per request slot: the request being served
  buf,           \* per request slot: what readFile returned
  snap,          \* per request slot: the `data` object of saveTokens
  alias,         \* per request slot: keys of snap still sharing the live object
  ret,           \* per request slot: the outcome to deliver once the save is done
  last,          \* the most recently completed request and its outcome
  used,          \* history: code -> number of successful exchanges
  issued,        \* history: token -> data it was issued with
  revoked,       \* history: tokens removed by a completed revoke
  retired,       \* history: access tokens replaced by a completed refresh
  expired,       \* history: access tokens a completed verify removed as expired
  codeAt,        \* history: code -> the time authorize issued it
  strictResource, \* whether setupOAuth installed validateResource
  ticks,
  restarts,
  clients,       \* ClientsStore.clients: client_id -> client metadata
  loaded,        \* ClientsStore.loaded
  clientFile,    \* the client file: [exists, whole, size, clients]
  registered,    \* history: client_id -> metadata of the last completed register
  redirect,      \* what the last authorize passed to res.redirect
  transports,    \* startHttpServer's transports: the session ids that are its keys
  sessions,      \* history: session id -> "open" or "closed"
  nextSession,   \* next value randomUUID() returns for a session id
  appId,         \* WeChatAPI.appId
  cachedToken,   \* WeChatAPI.accessToken
  tokenExpireTime, \* WeChatAPI.tokenExpireTime
  net            \* history: the network calls made so far, in order

vars == << codes, tokens, tokensLoaded, file, now, nextCode, nextId, pc, req, buf, snap,
           alias, ret, last, used, issued, revoked, retired, expired, codeAt,
           strictResource, ticks, restarts, clients, loaded, clientFile, registered,
           redirect, transports, sessions, nextSession, appId, cachedToken,
           tokenExpireTime, net >>

\* the state of the client registry
regVars == << clients, loaded, clientFile, registered >>

\* the session map of the HTTP server
sessVars == << transports, sessions, nextSession >>

\* the content-platform client
apiVars == << appId, cachedToken, tokenExpireTime, net >>

\* this.accessToken of a WeChatAPI that has no credential
NoCredential == "null"

\* a refresh request without the optional scopes and resource arguments
NoOpt == [hasScopes |-> FALSE, scopes |-> <<>>, resource |-> NoResource]
NoReq == [op |-> "none", client |-> "c1", arg |-> 0, opt |-> NoOpt]
NoFile == [exists |-> FALSE, whole |-> FALSE, size |-> 0, tokens |-> EmptyMap]
NoClientFile == [exists |-> FALSE, whole |-> FALSE, size |-> 0, clients |-> EmptyMap]
\* params.state of an authorization request without a state
NoState == "undefined"
NoRedirect == [threw |-> FALSE, location |-> "none", code |-> 0, hasState |-> FALSE,
               state |-> NoState]


\* ---- pure parts of the provider ------------------------------------------

\* Array.prototype.join(' ') on a scopes array
RECURSIVE Join(_)
Join(s) ==
  IF s = <<>> THEN ""
  ELSE IF Len(s) = 1 THEN s[1]
  ELSE s[1] \o " " \o Join(Tail(s))

\* URL(...).origin of the resource values of the model
Origin(url) ==
  IF url = "https://other.example/mcp" THEN "https://other.example"
  ELSE "https://mcp.example"

mcpServerUrl == "https://mcp.example/mcp"

\* mutant of ValidateResource: a code without a resource passes
ValidateResource_AcceptsAbsent(resource) ==
  IF resource = NoResource THEN TRUE
  ELSE Origin(resource) = Origin(mcpServerUrl)

\* setupOAuth's validateResource (only installed under strictResource)
ValidateResource(resource) ==
  IF resource = NoResource THEN FALSE
  ELSE Origin(resource) = Origin(mcpServerUrl)

AccessData(token, clientId, scopes, resource, rt, t) ==
  [token |-> token, clientId |-> clientId, scopes |-> scopes,
   expiresAt |-> t + AccessTTL, resource |-> resource, type |-> "access",
   refreshToken |-> rt, accessToken |-> Undefined]

\* mutant of RefreshData: the refresh token lives as long as an access token
RefreshData_ShortLived(token, clientId, scopes, resource, at, t) ==
  [token |-> token, clientId |-> clientId, scopes |-> scopes,
   expiresAt |-> t + AccessTTL, resource |-> resource, type |-> "refresh",
   refreshToken |-> Undefined, accessToken |-> at]

RefreshData(token, clientId, scopes, resource, at, t) ==
  [token |-> token, clientId |-> clientId, scopes |-> scopes,
   expiresAt |-> t + RefreshTTL, resource |-> resource, type |-> "refresh",
   refreshToken |-> Undefined, accessToken |-> at]

Out(err, resp, minted, gone) ==
  [err |-> err, resp |-> resp, minted |-> minted, gone |-> gone]

Thrown(msg) == Out(msg, EmptyMap, EmptyMap, {})

\* loadTokens, after readFile returned `data`: the entries not yet expired are
\* set into this.tokens; a missing file (ENOENT) and a file JSON.parse rejects
\* leave the map as it is
LoadInto(tk, data, t) ==
  IF ~data.exists \/ ~data.whole THEN tk
  ELSE LET live == {k \in DOMAIN data.tokens : data.tokens[k].expiresAt > t}
       IN  [k \in (DOMAIN tk) \cup live |->
              IF k \in live THEN data.tokens[k] ELSE tk[k]]

LoadedKeys(data, t) ==
  IF ~data.exists \/ ~data.whole THEN {}
  ELSE {k \in DOMAIN data.tokens : data.tokens[k].expiresAt > t}

\* exchangeAuthorizationCode from codes.delete to its await: the code is
\* consumed, the pair is minted and stored, the response is prepared
ExchangeGrant(client, code, cds, tk, id, t) ==
  LET accessToken == id
      refreshToken == id + 1
      ad == AccessData(accessToken, client, cds[code].scopes, cds[code].resource, refreshToken, t)
      rd == RefreshData(refreshToken, client, cds[code].scopes, cds[code].resource, accessToken, t)
  IN  [codes |-> MapDelete(cds, code),
       tokens |-> MapSet(MapSet(tk, accessToken, ad), refreshToken, rd),
       save |-> TRUE,
       out |-> Out("ok",
                   [access_token |-> accessToken, token_type |-> "bearer",
                    expires_in |-> AccessTTL, refresh_token |-> refreshToken,
                    scope |-> Join(cds[code].scopes)],
                   (accessToken :> ad) @@ (refreshToken :> rd),
                   {})]

\* mutant of ExchangeBody: the code is not deleted when it is exchanged
ExchangeBody_KeepsCode(client, code, cds, tk, strict, id, t) ==
  IF code \notin DOMAIN cds
    THEN [codes |-> cds, tokens |-> tk, save |-> FALSE,
          out |-> Thrown("Invalid authorization code")]
  ELSE IF cds[code].client # client
    THEN [codes |-> cds, tokens |-> tk, save |-> FALSE,
          out |-> Thrown("Authorization code was not issued to this client")]
  ELSE IF strict /\ ~ValidateResource(cds[code].resource)
    THEN [codes |-> cds, tokens |-> tk, save |-> FALSE,
          out |-> Thrown("Invalid resource")]
  ELSE [ExchangeGrant(client, code, cds, tk, id, t) EXCEPT !.codes = cds]

\* mutant of ExchangeBody: the code is deleted before the client is compared
ExchangeBody_DeletesFirst(client, code, cds, tk, strict, id, t) ==
  IF code \notin DOMAIN cds
    THEN [codes |-> cds, tokens |-> tk, save |-> FALSE,
          out |-> Thrown("Invalid authorization code")]
  ELSE IF cds[code].client # client
    THEN [codes |-> MapDelete(cds, code), tokens |-> tk, save |-> FALSE,
          out |-> Thrown("Authorization code was not issued to this client")]
  ELSE IF strict /\ ~ValidateResource(cds[code].resource)
    THEN [codes |-> cds, tokens |-> tk, save |-> FALSE,
          out |-> Thrown("Invalid resource")]
  ELSE ExchangeGrant(client, code, cds, tk, id, t)

\* exchangeAuthorizationCode up to its await: the codes and tokens it leaves,
\* its outcome, and whether it goes on to saveTokens
ExchangeBody(client, code, cds, tk, strict, id, t) ==
  IF code \notin DOMAIN cds
    THEN [codes |-> cds, tokens |-> tk, save |-> FALSE,
          out |-> Thrown("Invalid authorization code")]
  ELSE IF cds[code].client # client
    THEN [codes |-> cds, tokens |-> tk, save |-> FALSE,
          out |-> Thrown("Authorization code was not issued to this client")]
  ELSE IF strict /\ ~ValidateResource(cds[code].resource)
    THEN [codes |-> cds, tokens |-> tk, save |-> FALSE,
          out |-> Thrown("Invalid resource")]
  ELSE ExchangeGrant(client, code, cds, tk, id, t)

\* mutant of RefreshBody: the new access token is stored without its link to
\* the refresh token
RefreshBody_Unlinked(client, refreshToken, opt, tk, id, t) ==
  IF refreshToken \notin DOMAIN tk \/ tk[refreshToken].type # "refresh"
    THEN [tokens |-> tk, save |-> FALSE, out |-> Thrown("Invalid refresh token")]
  ELSE IF tk[refreshToken].clientId # client
    THEN [tokens |-> tk, save |-> FALSE,
          out |-> Thrown("Refresh token was not issued to this client")]
  ELSE IF tk[refreshToken].expiresAt < t
    THEN [tokens |-> MapDelete(tk, refreshToken), save |-> FALSE,
          out |-> Thrown("Refresh token expired")]
  ELSE
    LET tokenData == tk[refreshToken]
        old == tokenData.accessToken
        t1 == IF old # Undefined THEN MapDelete(tk, old) ELSE tk
        newAccessToken == id
        scopes == IF opt.hasScopes THEN opt.scopes ELSE tokenData.scopes
        resource == IF opt.resource # NoResource THEN opt.resource ELSE tokenData.resource
        nd == AccessData(newAccessToken, client, scopes, resource, Undefined, t)
        t2 == MapSet(t1, newAccessToken, nd)
    IN  [tokens |-> [t2 EXCEPT ![refreshToken].accessToken = newAccessToken],
         save |-> TRUE,
         out |-> Out("ok",
                     [access_token |-> newAccessToken, token_type |-> "bearer",
                      expires_in |-> AccessTTL, scope |-> Join(scopes)],
                     (newAccessToken :> nd),
                     IF old # Undefined THEN {old} ELSE {})]

\* mutant of RefreshBody: an expired refresh token is refused but stays in the map
RefreshBody_KeepsExpired(client, refreshToken, opt, tk, id, t) ==
  IF refreshToken \notin DOMAIN tk \/ tk[refreshToken].type # "refresh"
    THEN [tokens |-> tk, save |-> FALSE, out |-> Thrown("Invalid refresh token")]
  ELSE IF tk[refreshToken].clientId # client
    THEN [tokens |-> tk, save |-> FALSE,
          out |-> Thrown("Refresh token was not issued to this client")]
  ELSE IF tk[refreshToken].expiresAt < t
    THEN [tokens |-> tk, save |-> FALSE,
          out |-> Thrown("Refresh token expired")]
  ELSE
    LET tokenData == tk[refreshToken]
        old == tokenData.accessToken
        t1 == IF old # Undefined THEN MapDelete(tk, old) ELSE tk
        newAccessToken == id
        scopes == IF opt.hasScopes THEN opt.scopes ELSE tokenData.scopes
        resource == IF opt.resource # NoResource THEN opt.resource ELSE tokenData.resource
        nd == AccessData(newAccessToken, client, scopes, resource, refreshToken, t)
        t2 == MapSet(t1, newAccessToken, nd)
    IN  [tokens |-> [t2 EXCEPT ![refreshToken].accessToken = newAccessToken],
         save |-> TRUE,
         out |-> Out("ok",
                     [access_token |-> newAccessToken, token_type |-> "bearer",
                      expires_in |-> AccessTTL, scope |-> Join(scopes)],
                     (newAccessToken :> nd),
                     IF old # Undefined THEN {old} ELSE {})]

\* mutant of RefreshBody: the scopes and resource arguments are not used
RefreshBody_IgnoresArguments(client, refreshToken, opt, tk, id, t) ==
  IF refreshToken \notin DOMAIN tk \/ tk[refreshToken].type # "refresh"
    THEN [tokens |-> tk, save |-> FALSE, out |-> Thrown("Invalid refresh token")]
  ELSE IF tk[refreshToken].clientId # client
    THEN [tokens |-> tk, save |-> FALSE,
          out |-> Thrown("Refresh token was not issued to this client")]
  ELSE IF tk[refreshToken].expiresAt < t
    THEN [tokens |-> MapDelete(tk, refreshToken), save |-> FALSE,
          out |-> Thrown("Refresh token expired")]
  ELSE
    LET tokenData == tk[refreshToken]
        old == tokenData.accessToken
        t1 == IF old # Undefined THEN MapDelete(tk, old) ELSE tk
        newAccessToken == id
        scopes == tokenData.scopes
        resource == tokenData.resource
        nd == AccessData(newAccessToken, client, scopes, resource, refreshToken, t)
        t2 == MapSet(t1, newAccessToken, nd)
    IN  [tokens |-> [t2 EXCEPT ![refreshToken].accessToken = newAccessToken],
         save |-> TRUE,
         out |-> Out("ok",
                     [access_token |-> newAccessToken, token_type |-> "bearer",
                      expires_in |-> AccessTTL, scope |-> Join(scopes)],
                     (newAccessToken :> nd),
                     IF old # Undefined THEN {old} ELSE {})]

\* mutant of RefreshBody: a refresh renews the expiry of the refresh token
RefreshBody_RenewsRefresh(client, refreshToken, opt, tk, id, t) ==
  IF refreshToken \notin DOMAIN tk \/ tk[refreshToken].type # "refresh"
    THEN [tokens |-> tk, save |-> FALSE, out |-> Thrown("Invalid refresh token")]
  ELSE IF tk[refreshToken].clientId # client
    THEN [tokens |-> tk, save |-> FALSE,
          out |-> Thrown("Refresh token was not issued to this client")]
  ELSE IF tk[refreshToken].expiresAt < t
    THEN [tokens |-> MapDelete(tk, refreshToken), save |-> FALSE,
          out |-> Thrown("Refresh token expired")]
  ELSE
    LET tokenData == tk[refreshToken]
        old == tokenData.accessToken
        t1 == IF old # Undefined THEN MapDelete(tk, old) ELSE tk
        newAccessToken == id
        scopes == IF opt.hasScopes THEN opt.scopes ELSE tokenData.scopes
        resource == IF opt.resource # NoResource THEN opt.resource ELSE tokenData.resource
        nd == AccessData(newAccessToken, client, scopes, resource, refreshToken, t)
        t2 == MapSet(t1, newAccessToken, nd)
    IN  [tokens |-> [t2 EXCEPT ![refreshToken].accessToken = newAccessToken,
                               ![refreshToken].expiresAt = t + RefreshTTL],
         save |-> TRUE,
         out |-> Out("ok",
                     [access_token |-> newAccessToken, token_type |-> "bearer",
                      expires_in |-> AccessTTL, scope |-> Join(scopes)],
                     (newAccessToken :> nd),
                     IF old # Undefined THEN {old} ELSE {})]

\* exchangeRefreshToken after loadTokens, up to its await on saveTokens
RefreshBody(client, refreshToken, opt, tk, id, t) ==
  IF refreshToken \notin DOMAIN tk \/ tk[refreshToken].type # "refresh"
    THEN [tokens |-> tk, save |-> FALSE, out |-> Thrown("Invalid refresh token")]
  ELSE IF tk[refreshToken].clientId # client
    THEN [tokens |-> tk, save |-> FALSE,
          out |-> Thrown("Refresh token was not issued to this client")]
  ELSE IF tk[refreshToken].expiresAt < t
    THEN [tokens |-> MapDelete(tk, refreshToken), save |-> FALSE,
          out |-> Thrown("Refresh token expired")]
  ELSE
    LET tokenData == tk[refreshToken]
        old == tokenData.accessToken
        t1 == IF old # Undefined THEN MapDelete(tk, old) ELSE tk
        newAccessToken == id
        scopes == IF opt.hasScopes THEN opt.scopes ELSE tokenData.scopes
        resource == IF opt.resource # NoResource THEN opt.resource ELSE tokenData.resource
        nd == AccessData(newAccessToken, client, scopes, resource, refreshToken, t)
        t2 == MapSet(t1, newAccessToken, nd)
    IN  [tokens |-> [t2 EXCEPT ![refreshToken].accessToken = newAccessToken],
         save |-> TRUE,
         out |-> Out("ok",
                     [access_token |-> newAccessToken, token_type |-> "bearer",
                      expires_in |-> AccessTTL, scope |-> Join(scopes)],
                     (newAccessToken :> nd),
                     IF old # Undefined THEN {old} ELSE {})]

\* mutant of VerifyBody: the type of the token is not looked at
VerifyBody_AnyType(token, tk, t) ==
  IF token \notin DOMAIN tk
    THEN [tokens |-> tk, save |-> FALSE, out |-> Thrown("Invalid token")]
  ELSE IF tk[token].expiresAt < t
    THEN [tokens |-> MapDelete(tk, token), save |-> TRUE,
          out |-> Out("Token expired", EmptyMap, EmptyMap, {token})]
  ELSE [tokens |-> tk, save |-> FALSE,
        out |-> Out("ok",
                    [token |-> token, clientId |-> tk[token].clientId,
                     scopes |-> tk[token].scopes, expiresAt |-> tk[token].expiresAt,
                     resource |-> tk[token].resource],
                    EmptyMap, {})]

\* mutant of VerifyBody: an expired access token takes its refresh token along
VerifyBody_ExpiryCascades(token, tk, t) ==
  IF token \notin DOMAIN tk
    THEN [tokens |-> tk, save |-> FALSE, out |-> Thrown("Invalid token")]
  ELSE IF tk[token].type # "access"
    THEN [tokens |-> tk, save |-> FALSE, out |-> Thrown("Not an access token")]
  ELSE IF tk[token].expiresAt < t
    THEN [tokens |-> MapDelete(MapDelete(tk, tk[token].refreshToken), token), save |-> TRUE,
          out |-> Out("Token expired", EmptyMap, EmptyMap, {token})]
  ELSE [tokens |-> tk, save |-> FALSE,
        out |-> Out("ok",
                    [token |-> token, clientId |-> tk[token].clientId,
                     scopes |-> tk[token].scopes, expiresAt |-> tk[token].expiresAt,
                     resource |-> tk[token].resource],
                    EmptyMap, {})]

\* verifyAccessToken after loadTokens (expiresAt is returned in seconds, the
\* unit of this model)
VerifyBody(token, tk, t) ==
  IF token \notin DOMAIN tk
    THEN [tokens |-> tk, save |-> FALSE, out |-> Thrown("Invalid token")]
  ELSE IF tk[token].type # "access"
    THEN [tokens |-> tk, save |-> FALSE, out |-> Thrown("Not an access token")]
  ELSE IF tk[token].expiresAt < t
    THEN [tokens |-> MapDelete(tk, token), save |-> TRUE,
          out |-> Out("Token expired", EmptyMap, EmptyMap, {token})]
  ELSE [tokens |-> tk, save |-> FALSE,
        out |-> Out("ok",
                    [token |-> token, clientId |-> tk[token].clientId,
                     scopes |-> tk[token].scopes, expiresAt |-> tk[token].expiresAt,
                     resource |-> tk[token].resource],
                    EmptyMap, {})]

\* mutant of RevokeBody: a token that is not in the map is an error
RevokeBody_RefusesAbsent(token, tk) ==
  IF token \notin DOMAIN tk
    THEN [tokens |-> tk, save |-> FALSE, out |-> Thrown("Invalid token")]
  ELSE
    LET tokenData == tk[token]
        t1 == IF tokenData.type = "access" /\ tokenData.refreshToken # Undefined
                THEN MapDelete(tk, tokenData.refreshToken) ELSE tk
        t2 == IF tokenData.type = "refresh" /\ tokenData.accessToken # Undefined
                THEN MapDelete(t1, tokenData.accessToken) ELSE t1
        t3 == MapDelete(t2, token)
    IN  [tokens |-> t3, save |-> TRUE,
         out |-> Out("ok", EmptyMap, EmptyMap, (DOMAIN tk) \ (DOMAIN t3))]

\* revokeToken after loadTokens
RevokeBody(token, tk) ==
  IF token \notin DOMAIN tk
    THEN [tokens |-> tk, save |-> FALSE, out |-> Out("ok", EmptyMap, EmptyMap, {})]
  ELSE
    LET tokenData == tk[token]
        t1 == IF tokenData.type = "access" /\ tokenData.refreshToken # Undefined
                THEN MapDelete(tk, tokenData.refreshToken) ELSE tk
        t2 == IF tokenData.type = "refresh" /\ tokenData.accessToken # Undefined
                THEN MapDelete(t1, tokenData.accessToken) ELSE t1
        t3 == MapDelete(t2, token)
    IN  [tokens |-> t3, save |-> TRUE,
         out |-> Out("ok", EmptyMap, EmptyMap, (DOMAIN tk) \ (DOMAIN t3))]


\* ---- the two endpoints of setupRoutes ------------------------------------

\* req.body.token is undefined
Missing == -1

\* the error a rejected mkdir or writeFile raises out of saveTokens
IOError == "EIO"

\* POST /oauth/introspect, the token given: what res.json / res.status send
\* for the outcome of provider.verifyAccessToken
IntrospectResponse(out) ==
  IF out.err = "ok"
    THEN [status |-> 200,
          body |-> [active |-> TRUE, client_id |-> out.resp.clientId,
                    scope |-> Join(out.resp.scopes), exp |-> out.resp.expiresAt,
                    aud |-> out.resp.resource]]
    ELSE [status |-> 200, body |-> [active |-> FALSE]]

\* POST /oauth/introspect without a token
IntrospectNoToken == [status |-> 400, body |-> [error |-> "Token is required"]]

\* mutant of RevokeResponse: the catch answers with a server error
RevokeResponse_ErrorStatus(out) ==
  IF out.err = "ok" THEN [status |-> 200, body |-> EmptyMap]
  ELSE [status |-> 500, body |-> [error |-> out.err]]

\* POST /oauth/revoke: res.status(200).end() after the try and in the catch
RevokeResponse(out) ==
  IF out.err = "ok" THEN [status |-> 200, body |-> EmptyMap]
  ELSE [status |-> 200, body |-> EmptyMap]

\* a /mcp route with OAuth enabled: the bearer middleware calls the token
\* verifier, which calls verifyAccessToken; the route's handler runs only when
\* that call returned
McpGate(method, out) ==
  IF out.err = "ok" THEN [handled |-> TRUE, handler |-> method, auth |-> out.resp]
                    ELSE [handled |-> FALSE]

\* what the caller of request r gets for the provider's outcome: the outcome
\* itself for a call of the provider, the HTTP response for an endpoint
Respond(r, out) ==
  IF r.op = "introspect" THEN [out EXCEPT !.resp = IntrospectResponse(out)]
  ELSE IF r.op = "revoke_http" THEN [out EXCEPT !.resp = RevokeResponse(out)]
  ELSE IF r.op = "mcp" THEN [out EXCEPT !.resp = McpGate(r.method, out)]
  ELSE out

\* mutant of ChallengeBody: the lookup consumes the code
ChallengeBody_Consumes(code, cds) ==
  IF code \notin DOMAIN cds
    THEN [codes |-> cds, out |-> Thrown("Invalid authorization code")]
    ELSE [codes |-> MapDelete(cds, code),
          out |-> Out("ok", [codeChallenge |-> cds[code].codeChallenge], EmptyMap, {})]

\* challengeForAuthorizationCode: the challenge of the stored parameters, or
\* an error for a code that is not in the store; the client is not looked at
ChallengeBody(code, cds) ==
  IF code \notin DOMAIN cds
    THEN [codes |-> cds, out |-> Thrown("Invalid authorization code")]
    ELSE [codes |-> cds,
          out |-> Out("ok", [codeChallenge |-> cds[code].codeChallenge], EmptyMap, {})]

\* ---- the state machine ----------------------------------------------------

NoOut == Out("none", EmptyMap, EmptyMap, {})

InitWith(strict) ==
  /\ codes = EmptyMap
  /\ tokens = EmptyMap
  /\ tokensLoaded = FALSE
  /\ file = NoFile
  /\ now = 0
  /\ nextCode = 1
  /\ nextId = 1
  /\ pc = [p \in Procs |-> "idle"]
  /\ req = [p \in Procs |-> NoReq]
  /\ buf = [p \in Procs |-> NoFile]
  /\ snap = [p \in Procs |-> EmptyMap]
  /\ alias = [p \in Procs |-> {}]
  /\ ret = [p \in Procs |-> NoOut]
  /\ last = [op |-> "none", arg |-> 0, err |-> "none", resp |-> EmptyMap]
  /\ used = EmptyMap
  /\ issued = EmptyMap
  /\ revoked = {}
  /\ retired = {}
  /\ expired = {}
  /\ codeAt = EmptyMap
  /\ strictResource \in strict
  /\ ticks = 0
  /\ restarts = 0
  /\ clients = EmptyMap
  /\ loaded = FALSE
  /\ clientFile = NoClientFile
  /\ registered = EmptyMap
  /\ redirect = NoRedirect
  /\ transports = {}
  /\ sessions = EmptyMap
  /\ nextSession = 1
  /\ appId = "wx_app"
  /\ cachedToken = NoCredential
  /\ tokenExpireTime = 0
  /\ net = <<>>

UseCount(c) == IF c \in DOMAIN used THEN used[c] ELSE 0

\* the response (or the thrown error) reaches the caller
Deliver(r, out) ==
  /\ last' = [op |-> r.op, arg |-> r.arg, err |-> out.err, resp |-> out.resp]
  /\ used' = IF r.op = "exchange" /\ out.err = "ok"
               THEN MapSet(used, r.arg, IF UseCount(r.arg) >= 1 THEN 2 ELSE 1)
               ELSE used
  /\ issued' = out.minted @@ issued
  /\ retired' = IF r.op = "refresh" THEN retired \cup out.gone ELSE retired
  /\ revoked' = IF r.op = "revoke" THEN revoked \cup out.gone ELSE revoked
  /\ expired' = IF r.op = "verify" THEN expired \cup out.gone ELSE expired

NoDeliver == UNCHANGED << last, used, issued, retired, revoked, expired >>

\* saveTokens up to its first await: `data` holds the keys of this.tokens and
\* shares the token objects; `fresh` are the keys whose objects loadTokens has
\* just replaced, `link` the refresh token whose object a refresh has just
\* changed in place (Undefined if none)
SaveTokens(p, r, tk, out, fresh, link) ==
  /\ pc' = [pc EXCEPT ![p] = "mkdir"]
  /\ req' = [req EXCEPT ![p] = r]
  /\ buf' = [buf EXCEPT ![p] = NoFile]
  /\ snap' = [q \in Procs |->
                IF q = p THEN tk
                ELSE IF link \in alias[q] \ fresh
                  THEN [snap[q] EXCEPT ![link].accessToken = tk[link].accessToken]
                  ELSE snap[q]]
  /\ alias' = [q \in Procs |-> IF q = p THEN DOMAIN tk ELSE alias[q] \ fresh]
  /\ ret' = [ret EXCEPT ![p] = out]
  /\ NoDeliver

\* the request ends without a save
Return(p, r, out, fresh) ==
  /\ pc' = [pc EXCEPT ![p] = "idle"]
  /\ req' = [req EXCEPT ![p] = NoReq]
  /\ buf' = [buf EXCEPT ![p] = NoFile]
  /\ snap' = [snap EXCEPT ![p] = EmptyMap]
  /\ alias' = [q \in Procs |-> IF q = p THEN {} ELSE alias[q] \ fresh]
  /\ ret' = [ret EXCEPT ![p] = NoOut]
  /\ Deliver(r, out)

\* the synchronous part of refresh, verify or revoke that follows loadTokens,
\* run on the token map tk that loadTokens left
Body(p, r, tk, fresh) ==
  LET b == IF r.op = "refresh" THEN RefreshBody(r.client, r.arg, r.opt, tk, nextId, now)
           ELSE IF r.op \in {"verify", "introspect", "mcp"}
             THEN VerifyBody(r.arg, tk, now)
           ELSE RevokeBody(r.arg, tk)
      link == IF r.op = "refresh" /\ b.out.err = "ok" THEN r.arg ELSE Undefined
  IN  /\ nextId + Cardinality(DOMAIN b.out.minted) <= MaxTokens + 1
      /\ tokens' = b.tokens
      /\ nextId' = nextId + Cardinality(DOMAIN b.out.minted)
      /\ IF b.save THEN SaveTokens(p, r, b.tokens, Respond(r, b.out), fresh, link)
                   ELSE Return(p, r, Respond(r, b.out), fresh)

\* a refresh, verify or revoke request arrives: with the tokens loaded it runs
\* to its save or its end, otherwise it starts readFile
Begin(p, r) ==
  /\ pc[p] = "idle"
  /\ IF tokensLoaded
       THEN /\ Body(p, r, tokens, {})
            /\ UNCHANGED << codes, tokensLoaded, file, now, nextCode, codeAt,
                            strictResource, sessVars, apiVars, regVars, redirect, ticks, restarts >>
       ELSE /\ r.op = "refresh" => nextId <= MaxTokens
            /\ pc' = [pc EXCEPT ![p] = "load_read"]
            /\ req' = [req EXCEPT ![p] = r]
            /\ UNCHANGED << codes, tokens, tokensLoaded, file, now, nextCode, nextId,
                            buf, snap, alias, ret, last, used, issued, revoked, retired,
                            expired, codeAt, strictResource, sessVars, apiVars, regVars, redirect, ticks, restarts >>

\* readFile reads the token file
LoadRead(p) ==
  /\ pc[p] = "load_read"
  /\ pc' = [pc EXCEPT ![p] = "load_wait"]
  /\ buf' = [buf EXCEPT ![p] = file]
  /\ UNCHANGED << codes, tokens, tokensLoaded, file, now, nextCode, nextId, req, snap,
                  alias, ret, last, used, issued, revoked, retired, expired,
                  codeAt, strictResource, sessVars, apiVars, regVars, redirect, ticks, restarts >>

\* readFile resolves: loadTokens fills the map, and the request goes on
LoadDone(p) ==
  /\ pc[p] = "load_wait"
  /\ tokensLoaded' = TRUE
  /\ Body(p, req[p], LoadInto(tokens, buf[p], now), LoadedKeys(buf[p], now))
  /\ UNCHANGED << codes, file, now, nextCode, codeAt, strictResource, sessVars, apiVars, regVars, redirect, ticks, restarts >>

\* an exchange request: synchronous up to saveTokens, without loadTokens
Exchange(p, client, code) ==
  /\ pc[p] = "idle"
  /\ LET b == ExchangeBody(client, code, codes, tokens, strictResource, nextId, now)
         r == [op |-> "exchange", client |-> client, arg |-> code, opt |-> NoOpt]
     IN  /\ nextId + Cardinality(DOMAIN b.out.minted) <= MaxTokens + 1
         /\ codes' = b.codes
         /\ tokens' = b.tokens
         /\ nextId' = nextId + Cardinality(DOMAIN b.out.minted)
         /\ IF b.save THEN SaveTokens(p, r, b.tokens, b.out, {}, Undefined)
                      ELSE Return(p, r, b.out, {})
  /\ UNCHANGED << tokensLoaded, file, now, nextCode, codeAt, strictResource, sessVars, apiVars, regVars, redirect, ticks,
                  restarts >>

\* mkdir resolves: JSON.stringify(data) is taken now and writeFile starts
MkdirDone(p) ==
  /\ pc[p] = "mkdir"
  /\ pc' = [pc EXCEPT ![p] = "open"]
  /\ alias' = [alias EXCEPT ![p] = {}]
  /\ UNCHANGED << codes, tokens, tokensLoaded, file, now, nextCode, nextId, req, buf,
                  snap, ret, last, used, issued, revoked, retired, expired,
                  codeAt, strictResource, sessVars, apiVars, regVars, redirect, ticks, restarts >>

\* the length of the JSON document of a token map, up to the parts every
\* entry shares: an entry of type "refresh" is one character longer
RECURSIVE DocLength(_)
DocLength(doc) ==
  IF DOMAIN doc = {} THEN 1
  ELSE LET k == CHOOSE x \in DOMAIN doc : TRUE
       IN  DocLength(MapDelete(doc, k)) + (IF doc[k].type = "refresh" THEN 11 ELSE 10)

\* what the file holds once a string of the document doc has been written at
\* offset 0 over the content f: the document, or the document followed by the
\* rest of a longer content, which JSON.parse rejects
Written(f, doc) ==
  IF DocLength(doc) >= f.size
    THEN [exists |-> TRUE, whole |-> TRUE, size |-> DocLength(doc), tokens |-> doc]
    ELSE [exists |-> TRUE, whole |-> FALSE, size |-> f.size, tokens |-> EmptyMap]

\* writeFile has opened the file with flag 'w': the file is created or cut to
\* length 0
WriteOpen(p) ==
  /\ pc[p] = "open"
  /\ pc' = [pc EXCEPT ![p] = "write"]
  /\ file' = [exists |-> TRUE, whole |-> FALSE, size |-> 0, tokens |-> EmptyMap]
  /\ UNCHANGED << codes, tokens, tokensLoaded, now, nextCode, nextId, req, buf,
                  snap, alias, ret, last, used, issued, revoked, retired, expired,
                  codeAt, strictResource, sessVars, apiVars, regVars, redirect, ticks, restarts >>

\* writeFile resolves: the string is in the file, the request ends
WriteDone(p) ==
  /\ pc[p] = "write"
  /\ file' = Written(file, snap[p])
  /\ pc' = [pc EXCEPT ![p] = "idle"]
  /\ req' = [req EXCEPT ![p] = NoReq]
  /\ snap' = [snap EXCEPT ![p] = EmptyMap]
  /\ ret' = [ret EXCEPT ![p] = NoOut]
  /\ Deliver(req[p], ret[p])
  /\ UNCHANGED << codes, tokens, tokensLoaded, now, nextCode, nextId, buf, alias,
                  codeAt, strictResource, sessVars, apiVars, regVars, redirect, ticks, restarts >>

\* mutant of SaveFail: a failed save puts the map back to what the file holds
SaveFail_RollsBack(p) ==
  /\ pc[p] \in {"mkdir", "open", "write"}
  /\ pc' = [pc EXCEPT ![p] = "idle"]
  /\ req' = [req EXCEPT ![p] = NoReq]
  /\ snap' = [snap EXCEPT ![p] = EmptyMap]
  /\ alias' = [alias EXCEPT ![p] = {}]
  /\ ret' = [ret EXCEPT ![p] = NoOut]
  /\ last' = [op |-> req[p].op, arg |-> req[p].arg, err |-> IOError,
              resp |-> Respond(req[p], Thrown(IOError)).resp]
  /\ tokens' = file.tokens
  /\ UNCHANGED << codes, tokensLoaded, file, now, nextCode, nextId, buf,
                  used, issued, revoked, retired, expired, codeAt, strictResource, sessVars, apiVars, regVars, redirect,
                  ticks, restarts >>

\* mkdir or writeFile rejects: saveTokens throws, the file is as the failed
\* call left it, the handler's caller gets the error (an endpoint answers from
\* its catch)
SaveFail(p) ==
  /\ pc[p] \in {"mkdir", "open", "write"}
  /\ pc' = [pc EXCEPT ![p] = "idle"]
  /\ req' = [req EXCEPT ![p] = NoReq]
  /\ snap' = [snap EXCEPT ![p] = EmptyMap]
  /\ alias' = [alias EXCEPT ![p] = {}]
  /\ ret' = [ret EXCEPT ![p] = NoOut]
  /\ last' = [op |-> req[p].op, arg |-> req[p].arg, err |-> IOError,
              resp |-> Respond(req[p], Thrown(IOError)).resp]
  /\ UNCHANGED << codes, tokens, tokensLoaded, file, now, nextCode, nextId, buf,
                  used, issued, revoked, retired, expired, codeAt, strictResource, sessVars, apiVars, regVars, redirect,
                  ticks, restarts >>

\* an endpoint request without a token: no call of the provider
EndpointNoToken(p, op) ==
  /\ pc[p] = "idle"
  /\ op \in {"introspect", "revoke_http"}
  /\ last' = [op |-> op, arg |-> Missing, err |-> "none",
              resp |-> IF op = "introspect" THEN IntrospectNoToken
                       ELSE RevokeResponse(Out("ok", EmptyMap, EmptyMap, {}))]
  /\ UNCHANGED << codes, tokens, tokensLoaded, file, now, nextCode, nextId, pc, req,
                  buf, snap, alias, ret, used, issued, revoked, retired, expired,
                  codeAt, strictResource, sessVars, apiVars, regVars, redirect, ticks, restarts >>

\* a client object with one registered redirect URI
Client(id) ==
  [client_id |-> id, redirect_uris |-> <<"https://app.example/cb">>,
   grant_types |-> {"authorization_code", "refresh_token"}]

\* the parameters of an authorization request without a state
Params(scopes, resource) ==
  [scopes |-> scopes, resource |-> resource, redirectUri |-> "https://app.example/cb",
   state |-> NoState, codeChallenge |-> "challenge"]

\* what authorize passes to res.redirect: the first registered redirect URI
\* with the search parameters code and, when the request has one, state;
\* new URL(undefined) throws when the client has no redirect URI
AuthorizeTarget(client, params, code) ==
  IF Len(client.redirect_uris) = 0
    THEN [threw |-> TRUE, location |-> "none", code |-> 0, hasState |-> FALSE,
          state |-> NoState]
    ELSE [threw |-> FALSE, location |-> client.redirect_uris[1], code |-> code,
          hasState |-> params.state # NoState, state |-> params.state]

\* authorize: a fresh code for the client and the request parameters, stored
\* before the redirect target is built
Authorize(client, params) ==
  /\ nextCode <= MaxCodes
  /\ codes' = MapSet(codes, nextCode,
                     [client |-> client.client_id, scopes |-> params.scopes,
                      resource |-> params.resource,
                      codeChallenge |-> params.codeChallenge, createdAt |-> now])
  /\ nextCode' = nextCode + 1
  /\ codeAt' = MapSet(codeAt, nextCode, now)
  /\ redirect' = AuthorizeTarget(client, params, nextCode)
  /\ UNCHANGED << tokens, tokensLoaded, file, now, nextId, pc, req, buf, snap, alias,
                  ret, last, used, issued, revoked, retired, expired, strictResource, sessVars, apiVars, regVars,
                  ticks, restarts >>

\* a challenge lookup: synchronous, from call to return
Challenge(p, client, code) ==
  /\ pc[p] = "idle"
  /\ LET b == ChallengeBody(code, codes)
     IN  /\ codes' = b.codes
         /\ last' = [op |-> "challenge", arg |-> code, err |-> b.out.err,
                     resp |-> b.out.resp]
  /\ UNCHANGED << tokens, tokensLoaded, file, now, nextCode, nextId, pc, req, buf, snap,
                  alias, ret, used, issued, revoked, retired, expired, codeAt,
                  strictResource, sessVars, apiVars, regVars, redirect, ticks, restarts >>

\* mutant of CodeTimeout: the callback runs at the instant of the deadline or
\* not at all
CodeTimeout_ExactInstant(code) ==
  /\ code \in DOMAIN codes
  /\ now = codes[code].createdAt + CodeTTL
  /\ codes' = MapDelete(codes, code)
  /\ UNCHANGED << tokens, tokensLoaded, file, now, nextCode, nextId, pc, req, buf, snap,
                  alias, ret, last, used, issued, revoked, retired, expired,
                  codeAt, strictResource, sessVars, apiVars, regVars, redirect, ticks, restarts >>

\* the setTimeout callback of authorize, any time from 10 minutes after it
CodeTimeout(code) ==
  /\ code \in DOMAIN codes
  /\ now >= codes[code].createdAt + CodeTTL
  /\ codes' = MapDelete(codes, code)
  /\ UNCHANGED << tokens, tokensLoaded, file, now, nextCode, nextId, pc, req, buf, snap,
                  alias, ret, last, used, issued, revoked, retired, expired,
                  codeAt, strictResource, sessVars, apiVars, regVars, redirect, ticks, restarts >>

\* the instants at which something of the state changes its standing
Deadlines ==
  {codes[c].createdAt + CodeTTL : c \in DOMAIN codes}
  \cup {tokens[k].expiresAt : k \in DOMAIN tokens}
  \cup {file.tokens[k].expiresAt : k \in DOMAIN file.tokens}

\* the clock advances to a deadline or just past it
Tick(t) ==
  /\ ticks < MaxTicks
  /\ t > now
  /\ now' = t
  /\ ticks' = ticks + 1
  /\ UNCHANGED << codes, tokens, tokensLoaded, file, nextCode, nextId, pc, req, buf,
                  snap, alias, ret, last, used, issued, revoked, retired, expired,
                  codeAt, strictResource, sessVars, apiVars, regVars, redirect, restarts >>

\* mutant of Restart: the codes outlive the process
Restart_KeepsCodes ==
  /\ restarts < MaxRestarts
  /\ restarts' = restarts + 1
  /\ codes' = codes
  /\ tokens' = EmptyMap
  /\ tokensLoaded' = FALSE
  /\ clients' = EmptyMap
  /\ loaded' = FALSE
  /\ transports' = {}
  /\ sessions' = [s \in DOMAIN sessions |-> "closed"]
  /\ cachedToken' = NoCredential
  /\ tokenExpireTime' = 0
  /\ pc' = [p \in Procs |-> "idle"]
  /\ req' = [p \in Procs |-> NoReq]
  /\ buf' = [p \in Procs |-> NoFile]
  /\ snap' = [p \in Procs |-> EmptyMap]
  /\ alias' = [p \in Procs |-> {}]
  /\ ret' = [p \in Procs |-> NoOut]
  /\ UNCHANGED << file, now, nextCode, nextId, last, used, issued, revoked, retired,
                  expired, codeAt, strictResource, registered, clientFile, redirect, ticks,
                  nextSession, appId, net >>

\* the process exits (SIGINT) and is started again: memory is lost, requests in
\* flight are dropped, the files stay
Restart ==
  /\ restarts < MaxRestarts
  /\ restarts' = restarts + 1
  /\ codes' = EmptyMap
  /\ tokens' = EmptyMap
  /\ tokensLoaded' = FALSE
  /\ clients' = EmptyMap
  /\ loaded' = FALSE
  /\ transports' = {}
  /\ sessions' = [s \in DOMAIN sessions |-> "closed"]
  /\ cachedToken' = NoCredential
  /\ tokenExpireTime' = 0
  /\ pc' = [p \in Procs |-> "idle"]
  /\ req' = [p \in Procs |-> NoReq]
  /\ buf' = [p \in Procs |-> NoFile]
  /\ snap' = [p \in Procs |-> EmptyMap]
  /\ alias' = [p \in Procs |-> {}]
  /\ ret' = [p \in Procs |-> NoOut]
  /\ UNCHANGED << file, now, nextCode, nextId, last, used, issued, revoked, retired,
                  expired, codeAt, strictResource, registered, clientFile, redirect, ticks,
                  nextSession, appId, net >>

\* ---- the client registry ---------------------------------------------------

\* everything but the registry and the request slots
tokenVars == << codes, tokens, tokensLoaded, file, now, nextCode, nextId, alias, ret,
                used, issued, revoked, retired, expired, codeAt, strictResource, sessVars, apiVars, ticks,
                restarts, redirect >>

\* the length of the JSON document of a client map, up to the parts every
\* entry shares
RECURSIVE ClientDocLength(_)
ClientDocLength(doc) ==
  IF DOMAIN doc = {} THEN 1
  ELSE LET k == CHOOSE x \in DOMAIN doc : TRUE
       IN  ClientDocLength(MapDelete(doc, k)) + 10 + Len(doc[k].redirect_uris)
                                              + Cardinality(doc[k].grant_types)

\* the client file once a string of the document doc has been written at
\* offset 0 over the content f
ClientsWritten(f, doc) ==
  IF ClientDocLength(doc) >= f.size
    THEN [exists |-> TRUE, whole |-> TRUE, size |-> ClientDocLength(doc), clients |-> doc]
    ELSE [exists |-> TRUE, whole |-> FALSE, size |-> f.size, clients |-> EmptyMap]

\* ClientsStore.load after readFile returned `data`: every client of the file
\* is set into this.clients
ClientsLoadInto(cl, data) ==
  IF ~data.exists \/ ~data.whole THEN cl
  ELSE [id \in (DOMAIN cl) \cup (DOMAIN data.clients) |->
          IF id \in DOMAIN data.clients THEN data.clients[id] ELSE cl[id]]

\* registerClient between load() and save(): the metadata is set under its
\* client_id
RegisterBody(m, cl) == MapSet(cl, m.client_id, m)

\* getClient after load(): this.clients.get(clientId)
GetBody(id, cl) ==
  IF id \in DOMAIN cl THEN [id |-> id, found |-> TRUE, client |-> cl[id]]
                      ELSE [id |-> id, found |-> FALSE]

\* getClient and registerClient from the end of load(): getClient returns,
\* registerClient sets the client and runs save() up to its first await
RegistryBody(p, r, cl) ==
  IF r.op = "get"
    THEN /\ clients' = cl
         /\ pc' = [pc EXCEPT ![p] = "idle"]
         /\ req' = [req EXCEPT ![p] = NoReq]
         /\ buf' = [buf EXCEPT ![p] = NoFile]
         /\ last' = [op |-> "get", arg |-> 0, err |-> "ok", resp |-> GetBody(r.client, cl)]
         /\ UNCHANGED << snap, registered >>
    ELSE /\ clients' = RegisterBody(r.metadata, cl)
         /\ pc' = [pc EXCEPT ![p] = "cl_mkdir"]
         /\ req' = [req EXCEPT ![p] = r]
         /\ buf' = [buf EXCEPT ![p] = NoFile]
         /\ snap' = [snap EXCEPT ![p] = RegisterBody(r.metadata, cl)]
         /\ UNCHANGED << last, registered >>

\* a getClient or registerClient call arrives: with the clients loaded it runs
\* to its end or its save, otherwise it starts readFile
RegistryBegin(p, r) ==
  /\ pc[p] = "idle"
  /\ IF loaded
       THEN /\ RegistryBody(p, r, clients)
            /\ UNCHANGED << loaded, clientFile, tokenVars >>
       ELSE /\ pc' = [pc EXCEPT ![p] = "cl_read"]
            /\ req' = [req EXCEPT ![p] = r]
            /\ UNCHANGED << buf, snap, last, regVars, tokenVars >>

\* readFile reads the client file
ClientsLoadRead(p) ==
  /\ pc[p] = "cl_read"
  /\ pc' = [pc EXCEPT ![p] = "cl_wait"]
  /\ buf' = [buf EXCEPT ![p] = clientFile]
  /\ UNCHANGED << req, snap, last, regVars, tokenVars >>

\* readFile resolves: load() fills the map, and the call goes on
ClientsLoadDone(p) ==
  /\ pc[p] = "cl_wait"
  /\ loaded' = TRUE
  /\ RegistryBody(p, req[p], ClientsLoadInto(clients, buf[p]))
  /\ UNCHANGED << clientFile, tokenVars >>

\* mkdir of save() resolves: writeFile starts
ClientsMkdirDone(p) ==
  /\ pc[p] = "cl_mkdir"
  /\ pc' = [pc EXCEPT ![p] = "cl_open"]
  /\ UNCHANGED << req, buf, snap, last, regVars, tokenVars >>

\* writeFile has opened the client file with flag 'w'
ClientsWriteOpen(p) ==
  /\ pc[p] = "cl_open"
  /\ pc' = [pc EXCEPT ![p] = "cl_write"]
  /\ clientFile' = [exists |-> TRUE, whole |-> FALSE, size |-> 0, clients |-> EmptyMap]
  /\ UNCHANGED << req, buf, snap, last, clients, loaded, registered, tokenVars >>

\* writeFile resolves: registerClient returns the metadata
ClientsWriteDone(p) ==
  /\ pc[p] = "cl_write"
  /\ clientFile' = ClientsWritten(clientFile, snap[p])
  /\ pc' = [pc EXCEPT ![p] = "idle"]
  /\ req' = [req EXCEPT ![p] = NoReq]
  /\ snap' = [snap EXCEPT ![p] = EmptyMap]
  /\ last' = [op |-> "register", arg |-> 0, err |-> "ok",
              resp |-> [id |-> req[p].client, found |-> TRUE, client |-> req[p].metadata]]
  /\ registered' = MapSet(registered, req[p].client, req[p].metadata)
  /\ UNCHANGED << buf, clients, loaded, tokenVars >>

\* ---- the session map of the HTTP server ---------------------------------------

\* the values randomUUID() returns for session ids, in order
SessionIds == [n \in 1 .. (MaxSessions + 1) |-> <<"s1", "s2", "s3", "s4">>[n]]

\* a request without the mcp-session-id header
NoHeader == "none"

\* names every object inherits from Object.prototype
Inherited == {"constructor", "toString"}

\* transports[sessionId] on the plain object `transports`: the transport stored
\* under the id, else the property of that name inherited from
\* Object.prototype, else undefined
Lookup(map, id) ==
  IF id \in map THEN "transport"
  ELSE IF id \in Inherited THEN "inherited"
  ELSE "undefined"

\* the 400 answers of the handlers
InvalidSession == [status |-> 400, error |-> "Invalid session"]

\* what the caller sees when an async handler throws: the answer of an error
\* handler, or no answer at all (0)
ThrowOutcomes == {500, 0}

\* the handler calls transport.handleRequest
ToTransport(p, r) ==
  /\ pc' = [pc EXCEPT ![p] = "ss_handle"]
  /\ req' = [req EXCEPT ![p] = r]
  /\ UNCHANGED last

\* the handler answers 400 and returns
Refuse(r) ==
  /\ last' = [op |-> "session", arg |-> r.arg, err |-> "ok", resp |-> InvalidSession]
  /\ UNCHANGED << pc, req >>

\* transport.handleRequest is called on a value that is not a transport: the
\* call throws a TypeError out of the handler
ThrowTypeError(r) ==
  /\ \E st \in ThrowOutcomes :
       last' = [op |-> "session", arg |-> r.arg, err |-> "TypeError",
                resp |-> [status |-> st, error |-> "TypeError"]]
  /\ UNCHANGED << pc, req >>

\* mcpPostHandler, mcpGetHandler and mcpDeleteHandler up to their first await
SessionBegin(p, r) ==
  /\ pc[p] = "idle"
  /\ IF r.method = "POST"
       THEN IF r.arg # NoHeader /\ Lookup(transports, r.arg) # "undefined"
              THEN IF Lookup(transports, r.arg) = "transport"
                     THEN ToTransport(p, r)
                     ELSE ThrowTypeError(r)
            ELSE IF r.arg = NoHeader /\ r.init
              THEN /\ nextSession <= MaxSessions
                   /\ pc' = [pc EXCEPT ![p] = "ss_connect"]
                   /\ req' = [req EXCEPT ![p] = r]
                   /\ UNCHANGED last
            ELSE Refuse(r)
       ELSE LET key == IF r.arg = NoHeader THEN "undefined" ELSE r.arg
            IN  IF Lookup(transports, key) = "transport" THEN ToTransport(p, r)
                ELSE IF Lookup(transports, key) = "inherited" THEN ThrowTypeError(r)
                ELSE Refuse(r)
  /\ UNCHANGED << codes, tokens, tokensLoaded, file, now, nextCode, nextId, buf, snap,
                  alias, ret, used, issued, revoked, retired, expired, codeAt,
                  strictResource, sessVars, apiVars, regVars, redirect, ticks, restarts >>

\* server.connect(transport) of a new session resolves
SessionConnected(p) ==
  /\ pc[p] = "ss_connect"
  /\ pc' = [pc EXCEPT ![p] = "ss_handle"]
  /\ UNCHANGED << codes, tokens, tokensLoaded, file, now, nextCode, nextId, req, buf,
                  snap, alias, ret, last, used, issued, revoked, retired, expired, codeAt,
                  strictResource, sessVars, apiVars, regVars, redirect, ticks, restarts >>

\* transport.handleRequest resolves.  The transport of a new session has
\* generated its id and called onsessioninitialized; the transport of a
\* DELETE request has called onsessionclosed; the answer is the transport's
TransportDone(p) ==
  /\ pc[p] = "ss_handle"
  /\ pc' = [pc EXCEPT ![p] = "idle"]
  /\ req' = [req EXCEPT ![p] = NoReq]
  /\ IF req[p].arg = NoHeader
       THEN LET id == SessionIds[nextSession]
            IN  /\ transports' = transports \cup {id}
                /\ sessions' = MapSet(sessions, id, "open")
                /\ nextSession' = nextSession + 1
                /\ last' = [op |-> "session", arg |-> id, err |-> "ok",
                            resp |-> [status |-> 200, error |-> "none"]]
       ELSE /\ IF req[p].method = "DELETE"
                 THEN /\ transports' = transports \ {req[p].arg}
                      /\ sessions' = MapSet(sessions, req[p].arg, "closed")
                 ELSE UNCHANGED << transports, sessions >>
            /\ nextSession' = nextSession
            /\ last' = [op |-> "session", arg |-> req[p].arg, err |-> "ok",
                        resp |-> [status |-> 200, error |-> "none"]]
  /\ UNCHANGED << codes, tokens, tokensLoaded, file, now, nextCode, nextId, buf, snap,
                  alias, ret, used, issued, revoked, retired, expired, codeAt,
                  strictResource, apiVars, regVars, redirect, ticks, restarts >>

\* transport.onclose of the session id: the connection of the session ends
TransportClosed(id) ==
  /\ id \in transports
  /\ transports' = transports \ {id}
  /\ sessions' = MapSet(sessions, id, "closed")
  /\ UNCHANGED << codes, tokens, tokensLoaded, file, now, nextCode, nextId, pc, req,
                  buf, snap, alias, ret, last, used, issued, revoked, retired, expired,
                  codeAt, strictResource, nextSession, apiVars, regVars, redirect, ticks,
                  restarts >>

\* ---- the content-platform client (WeChatAPI) ----------------------------------

\* everything the content-platform client does not touch
apiRest == << codes, tokens, tokensLoaded, file, nextCode, nextId, buf, snap, alias, ret,
              used, issued, revoked, retired, expired, codeAt, strictResource, sessVars,
              regVars, redirect, restarts >>

\* this.appId.startsWith('test_'), on the app ids of the model
StartsWithTest(id) == id \in {"test_app", "test_"}

\* mutant of DraftOnly: the parameter defaults to false
DraftOnly_DefaultsFalse(arg) == arg = "true"

\* the draftOnly parameter of publishArticle with its default
DraftOnly(arg) == IF arg = "undefined" THEN TRUE ELSE arg = "true"

\* the wait of publishArticle between the submit and the status query, 3000 ms
PublishWait == 3

\* getAccessToken's test of the cache at the time t of the call
CacheHit(tok, exp, t) == tok # NoCredential /\ t < exp

\* the expiry getAccessToken records for a fetch started at t0
ExpireTime(t0, expires_in) == t0 + (expires_in - 60)

\* a call returns or throws to its caller
Finish(p, r, err, resp) ==
  /\ pc' = [pc EXCEPT ![p] = "idle"]
  /\ req' = [req EXCEPT ![p] = NoReq]
  /\ last' = [op |-> r.op, arg |-> r.arg, err |-> err, resp |-> resp]

\* a network call is started and awaited
Await(p, r, call, at) ==
  /\ Len(net) < MaxCalls
  /\ net' = Append(net, [call |-> call, by |-> p])
  /\ pc' = [pc EXCEPT ![p] = at]
  /\ req' = [req EXCEPT ![p] = r]
  /\ UNCHANGED last

\* the result publishArticle returns for a submitted article
Published(r) ==
  [success |-> TRUE, draftOnly |-> FALSE, mediaId |-> r.draft.media_id,
   calls |-> r.made]

\* the caller of getAccessToken goes on with the credential, up to its next
\* await: getAccessToken itself returns it, publishArticle posts the draft,
\* getPublishStatus posts the status query
AfterToken(p, r, cred) ==
  IF r.op = "token"
    THEN Finish(p, r, "ok", [access_token |-> cred, calls |-> r.made]) /\ UNCHANGED net
  ELSE IF r.stage = "draft"
    THEN Await(p, [r EXCEPT !.made = Append(r.made, "draft")], "draft", "pb_draft")
  ELSE Await(p, [r EXCEPT !.made = Append(r.made, "status")], "status", "pb_status")

\* getAccessToken throws: to the caller of getAccessToken and of publishArticle
\* (the call is outside its try); inside getPublishStatus the error is caught
\* by publishArticle, which goes on to return its result
TokenFailed(p, r, msg) ==
  /\ IF r.op = "publish" /\ r.stage = "status"
       THEN Finish(p, r, "ok", Published(r))
       ELSE Finish(p, r, msg, [calls |-> r.made])
  /\ UNCHANGED net

\* mutant of GetAccessToken: the cached credential is returned whatever the clock
GetAccessToken_IgnoresExpiry(p, r) ==
  IF cachedToken # NoCredential
    THEN AfterToken(p, r, cachedToken)
    ELSE Await(p, [r EXCEPT !.start = now, !.made = Append(r.made, "token")],
               "token", "tk_fetch")

\* getAccessToken up to its await: the cached credential if there is one and
\* the clock is before its expiry, else the fetch
GetAccessToken(p, r) ==
  IF CacheHit(cachedToken, tokenExpireTime, now)
    THEN AfterToken(p, r, cachedToken)
    ELSE Await(p, [r EXCEPT !.start = now, !.made = Append(r.made, "token")],
               "token", "tk_fetch")

\* new WeChatAPI(appId, appSecret)
Construct(id) ==
  /\ \A p \in Procs : pc[p] = "idle"
  /\ appId' = id
  /\ cachedToken' = NoCredential
  /\ tokenExpireTime' = 0
  /\ UNCHANGED << pc, req, last, net, now, ticks, apiRest >>

\* a call of getAccessToken or publishArticle, up to its first await
ApiBegin(p, r) ==
  /\ pc[p] = "idle"
  /\ IF r.op = "publish" /\ StartsWithTest(appId)
       THEN /\ Finish(p, r, "ok", [success |-> TRUE, draftOnly |-> FALSE,
                                    mediaId |-> "test_media_id", calls |-> r.made])
            /\ UNCHANGED net
       ELSE GetAccessToken(p, r)
  /\ UNCHANGED << appId, cachedToken, tokenExpireTime, now, ticks, apiRest >>

\* the token request resolves or rejects
TokenResponse(p, resp) ==
  /\ pc[p] = "tk_fetch"
  /\ IF resp.kind = "ok"
       THEN /\ cachedToken' = resp.access_token
            /\ tokenExpireTime' = ExpireTime(req[p].start, resp.expires_in)
            /\ AfterToken(p, req[p], resp.access_token)
       ELSE /\ UNCHANGED << cachedToken, tokenExpireTime >>
            /\ TokenFailed(p, req[p], resp.kind)
  /\ UNCHANGED << appId, now, ticks, apiRest >>

\* the draft request resolves or rejects: an error code or a failed request
\* is thrown, draftOnly returns, otherwise the draft is submitted
DraftResponse(p, resp) ==
  /\ pc[p] = "pb_draft"
  /\ LET r == [req[p] EXCEPT !.draft = resp]
     IN  IF resp.kind # "ok"
           THEN Finish(p, r, resp.kind, [calls |-> r.made]) /\ UNCHANGED net
         ELSE IF DraftOnly(r.draftOnly)
           THEN /\ Finish(p, r, "ok", [success |-> TRUE, draftOnly |-> TRUE,
                                        mediaId |-> resp.media_id, calls |-> r.made])
                /\ UNCHANGED net
         ELSE Await(p, [r EXCEPT !.made = Append(r.made, "submit")], "submit", "pb_submit")
  /\ UNCHANGED << appId, cachedToken, tokenExpireTime, now, ticks, apiRest >>

\* the submit request resolves or rejects: an error is thrown, otherwise
\* publishArticle waits before it asks for the status
SubmitResponse(p, resp) ==
  /\ pc[p] = "pb_submit"
  /\ IF resp.kind # "ok"
       THEN Finish(p, req[p], resp.kind, [calls |-> req[p].made])
       ELSE /\ pc' = [pc EXCEPT ![p] = "pb_sleep"]
            /\ req' = [req EXCEPT ![p].start = now]
            /\ UNCHANGED last
  /\ UNCHANGED << appId, cachedToken, tokenExpireTime, net, now, ticks, apiRest >>

\* the wait is over: getPublishStatus calls getAccessToken
SleepDone(p) ==
  /\ pc[p] = "pb_sleep"
  /\ now >= req[p].start + PublishWait
  /\ GetAccessToken(p, [req[p] EXCEPT !.stage = "status"])
  /\ UNCHANGED << appId, cachedToken, tokenExpireTime, now, ticks, apiRest >>

\* the status request resolves or rejects: publishArticle returns its result
\* either way
StatusResponse(p, resp) ==
  /\ pc[p] = "pb_status"
  /\ Finish(p, req[p], "ok", Published(req[p]))
  /\ UNCHANGED << appId, cachedToken, tokenExpireTime, net, now, ticks, apiRest >>

\* the clock advances while the client is in use
ApiTick(t) ==
  /\ ticks < MaxApiTicks
  /\ t > now
  /\ now' = t
  /\ ticks' = ticks + 1
  /\ UNCHANGED << pc, req, last, appId, cachedToken, tokenExpireTime, net, apiRest >>

\* the token values a request may present: every value issued so far, and 0,
\* a value that was never issued
Presentable == 0 .. (nextId - 1)

Requests(presenters, opts) ==
  [op : {"refresh"}, client : presenters, arg : Presentable, opt : opts]
  \cup [op : {"verify", "revoke"}, client : {"c1"}, arg : Presentable, opt : {NoOpt}]

\* ---- concurrent requests ---------------------------------------------------
\* Requests in flight interleave at their awaits, at one instant of the clock
\* and within one life of the process.  Codes are issued to client c1; either
\* client presents them.  A request takes the lowest free slot.

LowestFree(p) == \A q \in 1 .. (p - 1) : pc[q] # "idle"

Next ==
  \/ \E p \in Procs : LowestFree(p) /\ \E r \in Requests({"c1"}, {NoOpt}) : Begin(p, r)
  \/ \E p \in Procs : LoadRead(p)
  \/ \E p \in Procs : LoadDone(p)
  \/ \E p \in Procs : LowestFree(p) /\ \E client \in Clients, code \in 0 .. (nextCode - 1) :
        Exchange(p, client, code)
  \/ \E p \in Procs : MkdirDone(p)
  \/ \E p \in Procs : WriteOpen(p)
  \/ \E p \in Procs : WriteDone(p)
  \/ Authorize(Client("c1"), Params(<<"mcp:tools">>, "https://mcp.example/mcp"))

Init == InitWith({FALSE})

Spec == Init /\ [][Next]_vars

\* ---- one request at a time -------------------------------------------------
\* The same program serving its requests one after the other, over time and
\* across a restart of the process, without a resource validator.  Codes are
\* issued to client c1; either client presents codes and refresh tokens.

NextSeq ==
  \/ \E r \in Requests(Clients, {NoOpt}) : Begin(1, r)
  \/ LoadRead(1)
  \/ LoadDone(1)
  \/ \E client \in Clients, code \in 0 .. (nextCode - 1) : Exchange(1, client, code)
  \/ MkdirDone(1)
  \/ WriteOpen(1)
  \/ WriteDone(1)
  \/ Authorize(Client("c1"), Params(<<"mcp:tools">>, "https://mcp.example/mcp"))
  \/ \E code \in DOMAIN codes : CodeTimeout(code)
  \/ \E d \in Deadlines, e \in {0, 1} : Tick(d + e)
  \/ Restart

InitSeq == InitWith({FALSE})

SpecSeq == InitSeq /\ [][NextSeq]_vars

\* ---- requests with their data, the endpoints, failing saves -----------------
\* One request at a time within one life of the process: codes for either
\* client, with and without a resource, with and without the
\* resource validator; refreshes with and without the optional arguments; the
\* two endpoints; saves that fail.

\* the authorization requests: client c1, with one registered redirect URI,
\* with each kind of resource; client c2, with two registered redirect URIs and
\* two scopes, with either URI and with or without a state
AuthRequests ==
  [client : {"c1"}, uris : {<<"https://app.example/cb">>},
   scopes : {<<"mcp:tools">>},
   resource : {NoResource, "https://mcp.example/mcp", "https://other.example/mcp"},
   redirectUri : {"https://app.example/cb"}, state : {NoState}]
  \cup [client : {"c2"},
         uris : {<<"https://app.example/cb", "https://app.example/cb2">>},
         scopes : {<<"mcp:read", "mcp:write">>},
         resource : {"https://mcp.example/mcp"},
         redirectUri : {"https://app.example/cb", "https://app.example/cb2"},
         state : {NoState, "s1"}]

\* authorize called for the request a
AuthorizeRequest(a) ==
  Authorize([Client(a.client) EXCEPT !.redirect_uris = a.uris],
            [Params(a.scopes, a.resource) EXCEPT !.redirectUri = a.redirectUri,
                                                 !.state = a.state])

RefreshOpts ==
  {NoOpt,
   [hasScopes |-> TRUE, scopes |-> <<"mcp:read">>, resource |-> NoResource],
   [hasScopes |-> TRUE, scopes |-> <<>>, resource |-> "https://other.example/mcp"],
   [hasScopes |-> FALSE, scopes |-> <<>>, resource |-> "https://other.example/mcp"]}

EndpointRequests ==
  [op : {"introspect", "revoke_http"}, client : {"c1"}, arg : Presentable, opt : {NoOpt}]

NextData ==
  \/ \E r \in Requests(Clients, RefreshOpts) \cup EndpointRequests :
        Begin(1, r) /\ nextId' <= MaxDataTokens + 1
  \/ \E op \in {"introspect", "revoke_http"} : EndpointNoToken(1, op)
  \/ LoadRead(1)
  \/ LoadDone(1) /\ nextId' <= MaxDataTokens + 1
  \/ \E client \in Clients, code \in 0 .. (nextCode - 1) :
        Exchange(1, client, code) /\ nextId' <= MaxDataTokens + 1
  \/ MkdirDone(1)
  \/ WriteOpen(1)
  \/ WriteDone(1)
  \/ SaveFail(1)
  \/ \E a \in AuthRequests :
        nextCode <= MaxDataCodes
        /\ AuthorizeRequest(a)
  \/ \E code \in DOMAIN codes : CodeTimeout(code)
  \/ \E d \in Deadlines : d < RefreshTTL /\ Tick(d + 1)

InitData == InitWith(BOOLEAN)

SpecData == InitData /\ [][NextData]_vars

\* ---- the client registry, concurrently and across a restart -----------------
\* Calls of registerClient and getClient interleave at their awaits; the
\* process may stop and start again.

\* the metadata registerClient is called with: client c1 with one redirect URI
\* and with two, client c2 with two, client c2 without redirect URI and grant
\* type
Metadata ==
  {[client_id |-> "c1", redirect_uris |-> <<"https://app.example/cb">>,
    grant_types |-> {"authorization_code"}],
   [client_id |-> "c1",
    redirect_uris |-> <<"https://app.example/cb", "https://app.example/cb2">>,
    grant_types |-> {"authorization_code"}],
   [client_id |-> "c2",
    redirect_uris |-> <<"https://app.example/cb", "https://app.example/cb2">>,
    grant_types |-> {"authorization_code", "refresh_token"}],
   [client_id |-> "c2", redirect_uris |-> <<>>, grant_types |-> {}]}

RegistryRequests ==
  {[op |-> "register", client |-> m.client_id, arg |-> 0, opt |-> NoOpt, metadata |-> m] :
     m \in Metadata}
  \cup [op : {"get"}, client : {"c1", "c2", "c3"}, arg : {0}, opt : {NoOpt}]

NextReg ==
  \/ \E p \in Procs : LowestFree(p) /\ \E r \in RegistryRequests : RegistryBegin(p, r)
  \/ \E p \in Procs : ClientsLoadRead(p)
  \/ \E p \in Procs : ClientsLoadDone(p)
  \/ \E p \in Procs : ClientsMkdirDone(p)
  \/ \E p \in Procs : ClientsWriteOpen(p)
  \/ \E p \in Procs : ClientsWriteDone(p)
  \/ Restart

InitReg == InitWith({FALSE})

SpecReg == InitReg /\ [][NextReg]_vars

\* ---- the life of a code ---------------------------------------------------
\* One request at a time: codes are issued to client c1, looked up and
\* exchanged by either client, and removed by their timers as time passes.
\* No more codes are issued than there are token values for their exchanges.

NextCodes ==
  \/ 2 * nextCode <= MaxTokens
       /\ Authorize(Client("c1"), Params(<<"mcp:tools">>, "https://mcp.example/mcp"))
  \/ \E client \in Clients, code \in 0 .. (nextCode - 1) : Challenge(1, client, code)
  \/ \E client \in Clients, code \in 0 .. (nextCode - 1) : Exchange(1, client, code)
  \/ MkdirDone(1)
  \/ WriteOpen(1)
  \/ WriteDone(1)
  \/ \E code \in DOMAIN codes : CodeTimeout(code)
  \/ \E d \in Deadlines, e \in {0, 1} : Tick(d + e)

InitCodes == InitWith({FALSE})

SpecCodes == InitCodes /\ [][NextCodes]_vars

\* ---- protected requests -----------------------------------------------------
\* POST, GET and DELETE /mcp requests with a bearer token, concurrent with
\* revocations, at one instant of the clock and within one life of the
\* process; one code is issued and exchanged.

McpRequests ==
  [op : {"mcp"}, client : {"c1"}, arg : Presentable, opt : {NoOpt},
   method : {"POST", "GET", "DELETE"}]
  \cup [op : {"revoke"}, client : {"c1"}, arg : Presentable, opt : {NoOpt}]

NextMcp ==
  \/ \E p \in Procs : LowestFree(p) /\ \E r \in McpRequests : Begin(p, r)
  \/ \E p \in Procs : LoadRead(p)
  \/ \E p \in Procs : LoadDone(p)
  \/ \E p \in Procs : LowestFree(p) /\ \E code \in 0 .. (nextCode - 1) :
        Exchange(p, "c1", code)
  \/ \E p \in Procs : MkdirDone(p)
  \/ \E p \in Procs : WriteOpen(p)
  \/ \E p \in Procs : WriteDone(p)
  \/ nextCode <= MaxDataCodes
       /\ Authorize(Client("c1"), Params(<<"mcp:tools">>, "https://mcp.example/mcp"))

InitMcp == InitWith({FALSE})

SpecMcp == InitMcp /\ [][NextMcp]_vars

\* ---- codes and their timers, with fairness ----------------------------------
\* One request at a time, over time and across a restart: codes are issued to
\* client c1 and exchanged by either client.  The clock keeps advancing and a
\* timer callback that is due is run: the clock of the model stops only once
\* it is past the deadline of every code in the store, and no code is issued
\* after that.

TimePasses ==
  \E d \in Deadlines, e \in {0, 1} :
    /\ Tick(d + e)
    /\ ticks' = MaxTicks => \A c \in DOMAIN codes : now' >= codes[c].createdAt + CodeTTL

NextLive ==
  \/ ticks < MaxTicks /\ 2 * nextCode <= MaxTokens
       /\ Authorize(Client("c1"), Params(<<"mcp:tools">>, "https://mcp.example/mcp"))
  \/ \E client \in Clients, code \in 0 .. (nextCode - 1) : Exchange(1, client, code)
  \/ MkdirDone(1)
  \/ WriteOpen(1)
  \/ WriteDone(1)
  \/ \E code \in DOMAIN codes : CodeTimeout(code)
  \/ TimePasses
  \/ Restart

InitLive == InitWith({FALSE})

SpecLive ==
  /\ InitLive
  /\ [][NextLive]_vars
  /\ WF_vars(TimePasses)
  /\ \A code \in 1 .. MaxCodes : WF_vars(CodeTimeout(code))


\* ---- the sessions of the HTTP server ------------------------------------------
\* POST, GET and DELETE /mcp requests interleave at their awaits; the header
\* carries no session id, an id the server generated or may generate, an id
\* it never generates, or a name of Object.prototype; the process may stop.

SessionRequests ==
  [op : {"session"}, client : {"c1"},
   arg : {NoHeader, "s0"} \cup {SessionIds[n] : n \in 1 .. MaxSessions} \cup Inherited,
   opt : {NoOpt}, method : {"POST", "GET", "DELETE"}, init : BOOLEAN]

NextSess ==
  \/ \E p \in Procs : LowestFree(p) /\ \E r \in SessionRequests : SessionBegin(p, r)
  \/ \E p \in Procs : SessionConnected(p)
  \/ \E p \in Procs : TransportDone(p)
  \/ \E id \in transports : TransportClosed(id)
  \/ Restart

InitSess == InitWith({FALSE})

SpecSess == InitSess /\ [][NextSess]_vars

\* ---- the content-platform client ----------------------------------------------
\* Calls of getAccessToken and publishArticle on a WeChatAPI object, one at a
\* time, as the clock advances; the object is constructed for a real or a
\* test app id.

AppIds == {"wx_app", "test_app", "testapp"}

ApiRequests ==
  {[op |-> "token", client |-> "c1", arg |-> 0, opt |-> NoOpt, start |-> 0,
    made |-> <<>>, stage |-> "none", draftOnly |-> "undefined",
    draft |-> [kind |-> "none"]]}
  \cup {[op |-> "publish", client |-> "c1", arg |-> 0, opt |-> NoOpt, start |-> 0,
          made |-> <<>>, stage |-> "draft", draftOnly |-> d,
          draft |-> [kind |-> "none"]] : d \in {"undefined", "true", "false"}}

\* what the platform answers to a token request: a credential good for two
\* hours or for half a minute, a body without a credential, a failed request
TokenResponses ==
  [kind : {"ok"}, access_token : {"credA", "credB"}, expires_in : {7200, 30}]
  \cup {[kind |-> "no_token"], [kind |-> "failed"]}

\* what the platform answers to a draft, submit or status request: a body
\* without an error code, a body with one, a failed request
PostResponses ==
  {[kind |-> "ok", media_id |-> "m1"], [kind |-> "errcode"], [kind |-> "failed"]}

\* the instants at which the cache or a waiting call changes its standing
ApiInstants ==
  {now + 1, tokenExpireTime - 1, tokenExpireTime, tokenExpireTime + 1}
  \cup {req[p].start + PublishWait : p \in {q \in Procs : pc[q] = "pb_sleep"}}

NextApi ==
  \/ \E r \in ApiRequests : ApiBegin(1, r)
  \/ \E resp \in TokenResponses : TokenResponse(1, resp)
  \/ \E resp \in PostResponses : DraftResponse(1, resp)
  \/ \E resp \in PostResponses : SubmitResponse(1, resp)
  \/ SleepDone(1)
  \/ \E resp \in PostResponses : StatusResponse(1, resp)
  \/ \E id \in AppIds : Construct(id)
  \/ \E t \in ApiInstants : ApiTick(t)

InitApi == InitWith({FALSE})

SpecApi == InitApi /\ [][NextApi]_vars


\* ======================= the claims =======================================

\* the spec's error taxonomy over the messages the provider throws
InvalidGrant ==
  {"Invalid authorization code", "Authorization code was not issued to this client",
   "Invalid refresh token", "Refresh token was not issued to this client",
   "Refresh token expired"}
InvalidToken == {"Invalid token", "Not an access token"}
TokenExpired == {"Token expired"}

\* every step that serves a request of kind op with argument t leaves it in
\* req' (the request goes on to its save) or in last' (it has ended)
Serves(p, op, t) ==
  \/ req'[p].op = op /\ req'[p].arg = t
  \/ last'.op = op /\ last'.arg = t

VerifyReq(t) == [op |-> "verify", client |-> "c1", arg |-> t, opt |-> NoOpt]
RefreshReq(c, t) == [op |-> "refresh", client |-> c, arg |-> t, opt |-> NoOpt]

\* ---- C1 ----
\* C1: single-use code.  Over every interleaving of exchange requests, no code
\* is exchanged successfully more than once, and an exchange of a code that
\* has already been exchanged fails with InvalidGrant (the code is unknown).
C1_SingleUseCode ==
  /\ \A c \in DOMAIN used : used[c] <= 1
  /\ (last.op = "exchange" /\ last.err # "ok" /\ UseCount(last.arg) >= 1)
       => last.err = "Invalid authorization code"

\* a second exchange of an exchanged code has been refused
C1_Witness ==
  /\ last.op = "exchange"
  /\ last.err = "Invalid authorization code"
  /\ UseCount(last.arg) = 1

\* ---- C2 ----
\* C2: in every reachable state, also under requests that interleave at their
\* awaits, at most one access token in the token store is linked to any given
\* refresh token.
C2_OneAccessPerRefresh ==
  \A r \in DOMAIN tokens :
    tokens[r].type = "refresh" =>
      Cardinality({a \in DOMAIN tokens :
                     tokens[a].type = "access" /\ tokens[a].refreshToken = r}) <= 1


\* ---- C3 ----
\* C3: token durability across restart.  After a restart, an access token
\* that a completed exchange or refresh issued, that no completed revoke or
\* refresh has removed and whose expiry is still ahead is accepted by verify,
\* and such a refresh token is not refused as unknown by refresh, whatever
\* request was the first one after the restart.
C3_DurableAcrossRestart ==
  (/\ restarts > 0
   /\ last.arg \in DOMAIN issued
   /\ last.arg \notin (revoked \cup retired)
   /\ now < issued[last.arg].expiresAt)
  => /\ (last.op = "verify" /\ issued[last.arg].type = "access") => last.err = "ok"
     /\ (last.op = "refresh" /\ issued[last.arg].type = "refresh")
          => last.err # "Invalid refresh token"

\* ---- C4 ----
\* C4: revocation cascades.  Once a revoke has completed, the tokens it
\* removed (the token and its linked counterpart) are not in the store: a
\* verify of such an access token arriving now fails, and so does a refresh
\* with such a refresh token.
C4_RevocationCascades ==
  tokensLoaded =>
    \A t \in revoked :
      /\ t \notin DOMAIN tokens
      /\ VerifyBody(t, tokens, now).out.err # "ok"
      /\ \A c \in Clients : RefreshBody(c, t, NoOpt, tokens, nextId, now).out.err # "ok"

\* ---- C5 ----
\* C5: once a refresh has completed, the access token it replaced is refused
\* by a verify arriving now with InvalidToken, and the access token the
\* refresh returned is another one.
C5_OldAccessRejected ==
  /\ tokensLoaded =>
       \A t \in retired : VerifyBody(t, tokens, now).out.err = "Invalid token"
  /\ (last.op = "refresh" /\ last.err = "ok") => last.resp.access_token \notin retired

C7_CodeExpiry ==
  (last.op = "exchange" /\ last.err = "ok")
    => issued[last.resp.access_token].expiresAt - AccessTTL < codeAt[last.arg] + CodeTTL


\* ---- C8 ----
\* what C8 expects of the step in which the verify of t by slot p checks the
\* token map `store`
C8_Expect(p, t, store) ==
  LET live == /\ t \in DOMAIN store
              /\ store[t].type = "access"
              /\ ~(store[t].expiresAt < now)
  IN  /\ live => /\ pc'[p] = "idle"
                 /\ last'.op = "verify" /\ last'.arg = t /\ last'.err = "ok"
                 /\ last'.resp.clientId = store[t].clientId
                 /\ last'.resp.scopes = store[t].scopes
                 /\ last'.resp.resource = store[t].resource
      /\ (t \notin DOMAIN store \/ (t \in DOMAIN store /\ store[t].type = "refresh"))
           => /\ pc'[p] = "idle"
              /\ last'.op = "verify" /\ last'.arg = t /\ last'.err \in InvalidToken
      /\ (~live /\ t \in DOMAIN store /\ store[t].type = "access")
           => /\ pc'[p] = "mkdir"
              /\ ret'[p].err \in TokenExpired

\* C8: verify(t) succeeds exactly when t is in the token store, is an access
\* token and is not past its expiry, and then returns the client id, scopes
\* and resource stored for t; an absent token and a refresh token are refused
\* with InvalidToken, an access token past its expiry is not accepted either.
C8_VerifyAccepts ==
  [][\A p \in Procs, t \in Presentable :
       /\ (/\ pc[p] = "idle"
           /\ tokensLoaded
           /\ Serves(p, "verify", t)
           /\ Begin(p, VerifyReq(t))) => C8_Expect(p, t, tokens)
       /\ (/\ pc[p] = "load_wait"
           /\ req[p] = VerifyReq(t)
           /\ LoadDone(p)) => C8_Expect(p, t, LoadInto(tokens, buf[p], now))]_vars

\* verify has accepted an access token while a refresh token is in the store
C8_Witness ==
  /\ last.op = "verify"
  /\ last.err = "ok"
  /\ last.arg \in DOMAIN tokens
  /\ last.resp.clientId = tokens[last.arg].clientId
  /\ \E r \in DOMAIN tokens : tokens[r].type = "refresh"

\* ---- C9 ----
\* what C9 expects of the step in which the verify of t by slot p finds t past
\* its expiry in the token map `store`
C9_Expect(p, t, store) ==
  (t \in DOMAIN store /\ store[t].type = "access" /\ store[t].expiresAt < now)
    => /\ tokens' = [k \in (DOMAIN store) \ {t} |-> store[k]]
       /\ pc'[p] = "mkdir"
       /\ ret'[p].err \in TokenExpired

\* C9: a verify that finds its access token past its expiry removes exactly
\* that token from the store and leaves every other token, the linked refresh
\* token included, as it was; when its save is done the file holds the store
\* without the token and the caller gets TokenExpired; a refresh with the
\* linked refresh token, not expired itself, succeeds although its access
\* token is gone.
C9_ExpiredAccessRemoved ==
  [][\A p \in Procs, t \in Presentable :
       /\ (/\ pc[p] = "idle"
           /\ tokensLoaded
           /\ t \in DOMAIN tokens
           /\ Begin(p, VerifyReq(t))) => C9_Expect(p, t, tokens)
       /\ (/\ pc[p] = "load_wait"
           /\ req[p] = VerifyReq(t)
           /\ LoadDone(p)) => C9_Expect(p, t, LoadInto(tokens, buf[p], now))
       /\ (/\ pc[p] = "write"
           /\ req[p] = VerifyReq(t)
           /\ WriteDone(p))
            => /\ last'.op = "verify" /\ last'.arg = t /\ last'.err \in TokenExpired
               /\ file'.exists
               /\ t \notin DOMAIN file'.tokens
               /\ file'.tokens = tokens
       /\ \A c \in Clients :
            (/\ pc[p] = "idle"
             /\ tokensLoaded
             /\ t \in DOMAIN tokens
             /\ tokens[t].type = "refresh"
             /\ tokens[t].clientId = c
             /\ ~(tokens[t].expiresAt < now)
             /\ tokens[t].accessToken \notin DOMAIN tokens
             /\ Begin(p, RefreshReq(c, t)))
            => /\ pc'[p] = "mkdir"
               /\ ret'[p].err = "ok"
               /\ t \in DOMAIN tokens'
               /\ tokens'[t].accessToken \in DOMAIN tokens']_vars

\* a refresh has succeeded after verify removed its expired access token
C9_Witness ==
  /\ last.op = "refresh"
  /\ last.err = "ok"
  /\ \E t \in expired \cap retired : issued[t].refreshToken = last.arg

InvalidTarget == {"Invalid resource"}

\* C11: with the resource validator installed, the exchange by its owner of a
\* code that carries no resource, or a resource of another origin than the
\* server's, fails with InvalidTarget; no token is minted and the token store
\* and the token file stay as they were.
C11_StrictResourceRefused ==
  [][\A p \in Procs, cl \in Clients, c \in 0 .. (nextCode - 1) :
       (/\ pc[p] = "idle"
        /\ strictResource
        /\ c \in DOMAIN codes
        /\ codes[c].client = cl
        /\ (\/ codes[c].resource = NoResource
            \/ Origin(codes[c].resource) # Origin(mcpServerUrl))
        /\ Serves(p, "exchange", c)
        /\ Exchange(p, cl, c))
       => /\ pc'[p] = "idle"
          /\ last'.op = "exchange" /\ last'.arg = c /\ last'.err \in InvalidTarget
          /\ tokens' = tokens
          /\ file' = file
          /\ nextId' = nextId
          /\ issued' = issued]_vars

\* under the validator the exchange of a code without a resource was refused
C11_Witness ==
  /\ strictResource
  /\ last.op = "exchange"
  /\ last.err \in InvalidTarget
  /\ last.arg \in DOMAIN codes
  /\ codes[last.arg].resource = NoResource
  /\ tokens = EmptyMap

\* ---- C12 ----
\* what C12 expects of the step in which the refresh with t by client c, in
\* slot p, checks the token map `store`
C12_Expect(p, c, t, store) ==
  LET known == t \in DOMAIN store /\ store[t].type = "refresh"
      refused == /\ pc'[p] = "idle"
                 /\ last'.op = "refresh" /\ last'.arg = t /\ last'.err \in InvalidGrant
                 /\ nextId' = nextId
                 /\ issued' = issued
                 /\ file' = file
  IN  /\ ~known => refused /\ tokens' = store
      /\ (known /\ store[t].clientId # c) => refused /\ tokens' = store
      /\ (known /\ store[t].clientId = c /\ store[t].expiresAt < now)
           => refused /\ tokens' = [k \in (DOMAIN store) \ {t} |-> store[k]]

\* C12: a refresh fails with InvalidGrant when its token is not in the store
\* (after the load), is not a refresh token, belongs to another client, or is
\* past its expiry; it mints nothing; the expired refresh token is deleted
\* from the store and nothing else is, and in the three other cases the store
\* is left as it was.
C12_RefreshRefused ==
  [][\A p \in Procs, c \in Clients, t \in Presentable :
       /\ (/\ pc[p] = "idle"
           /\ tokensLoaded
           /\ Serves(p, "refresh", t)
           /\ Begin(p, RefreshReq(c, t))) => C12_Expect(p, c, t, tokens)
       /\ (/\ pc[p] = "load_wait"
           /\ req[p] = RefreshReq(c, t)
           /\ LoadDone(p)) => C12_Expect(p, c, t, LoadInto(tokens, buf[p], now))]_vars

\* a refresh token past its expiry was refused and is gone from the store
C12_Witness ==
  /\ last.op = "refresh"
  /\ last.err = "Refresh token expired"
  /\ last.arg \in DOMAIN issued
  /\ last.arg \notin DOMAIN tokens
  /\ now > issued[last.arg].expiresAt

\* ---- C13 ----
\* C13: an exchange that succeeds at time now adds exactly two tokens to the
\* store and changes no other: an access token expiring at now + 3600 s and a
\* refresh token expiring at now + 30 days, both of the presenting client,
\* with the scopes and the resource of the code, each naming the other; the
\* response, when the save is done, reports expires_in = 3600, the code's
\* scopes and the two token values.
C13_ExchangeMintsPair ==
  [][\A p \in Procs, cl \in Clients, c \in 0 .. (nextCode - 1) :
       /\ (/\ pc[p] = "idle"
           /\ Serves(p, "exchange", c)
           /\ Exchange(p, cl, c)
           /\ ret'[p].err = "ok")
          => LET a == ret'[p].resp.access_token
                 r == ret'[p].resp.refresh_token
             IN  /\ a # r
                 /\ {a, r} \cap DOMAIN tokens = {}
                 /\ DOMAIN tokens' = DOMAIN tokens \cup {a, r}
                 /\ \A k \in DOMAIN tokens : tokens'[k] = tokens[k]
                 /\ tokens'[a].type = "access"
                 /\ tokens'[a].expiresAt = now + 3600
                 /\ tokens'[a].refreshToken = r
                 /\ tokens'[r].type = "refresh"
                 /\ tokens'[r].expiresAt = now + 30 * 24 * 3600
                 /\ tokens'[r].accessToken = a
                 /\ \A k \in {a, r} :
                      /\ tokens'[k].clientId = cl
                      /\ tokens'[k].scopes = codes[c].scopes
                      /\ tokens'[k].resource = codes[c].resource
                 /\ ret'[p].resp.expires_in = 3600
                 /\ ret'[p].resp.scope = Join(codes[c].scopes)
       /\ (/\ pc[p] = "write"
           /\ req[p].op = "exchange"
           /\ WriteDone(p))
          => /\ last'.op = "exchange" /\ last'.err = "ok"
             /\ last'.resp = ret[p].resp
             /\ file'.tokens = tokens]_vars

\* an exchange has succeeded at a time after 0 for a code without a resource
C13_Witness ==
  /\ last.op = "exchange"
  /\ last.err = "ok"
  /\ now > 0
  /\ last.resp.access_token \in DOMAIN tokens
  /\ last.resp.refresh_token \in DOMAIN tokens
  /\ tokens[last.resp.access_token].resource = NoResource
  /\ tokens[last.resp.access_token].expiresAt = now + 3600

\* ---- C14 ----
\* what C14 expects of the step in which the refresh r of slot p succeeds on
\* the token map `store`
C14_Expect(p, r, store) ==
  LET a == ret'[p].resp.access_token
  IN  /\ a \in DOMAIN tokens'
      /\ a \notin DOMAIN store
      /\ tokens'[a].type = "access"
      /\ tokens'[a].clientId = r.client
      /\ tokens'[a].scopes = IF r.opt.hasScopes THEN r.opt.scopes ELSE store[r.arg].scopes
      /\ tokens'[a].resource = IF r.opt.resource # NoResource THEN r.opt.resource
                               ELSE store[r.arg].resource
      /\ tokens'[a].expiresAt = now + 3600
      /\ ret'[p].resp.expires_in = 3600
      /\ ret'[p].resp.scope = Join(tokens'[a].scopes)

\* C14: the access token a successful refresh mints carries the scopes of the
\* request if the request has scopes, else the scopes of the refresh token,
\* and the resource of the request if it has one, else the resource of the
\* refresh token; it expires at now + 3600 s.
C14_RefreshArguments ==
  [][\A p \in Procs :
       /\ (/\ pc[p] = "idle"
           /\ tokensLoaded
           /\ pc'[p] = "mkdir"
           /\ req'[p].op = "refresh"
           /\ ret'[p].err = "ok"
           /\ Begin(p, req'[p])) => C14_Expect(p, req'[p], tokens)
       /\ (/\ pc[p] = "load_wait"
           /\ req[p].op = "refresh"
           /\ LoadDone(p)
           /\ ret'[p].err = "ok")
            => C14_Expect(p, req[p], LoadInto(tokens, buf[p], now))]_vars

\* a refresh with scopes and a resource of its own has succeeded: the new
\* access token differs from the refresh token in both
C14_Witness ==
  /\ last.op = "refresh"
  /\ last.err = "ok"
  /\ last.arg \in DOMAIN tokens
  /\ last.resp.access_token \in DOMAIN tokens
  /\ tokens[last.resp.access_token].scopes = <<>>
  /\ tokens[last.arg].scopes # <<>>
  /\ tokens[last.resp.access_token].resource # tokens[last.arg].resource

\* ---- C15 ----
\* C15: once a refresh with R has succeeded, R, while it is in the store, is
\* a refresh token of the client it was issued to, and its link names the
\* access token of the latest refresh, never an access token that a
\* successful refresh has retired; the access token R names is in the store
\* and names R.
C15_RefreshKeepsLink ==
  \A r \in DOMAIN tokens :
    (tokens[r].type = "refresh" /\ r \in DOMAIN issued /\ tokensLoaded)
      => /\ tokens[r].clientId = issued[r].clientId
         /\ tokens[r].accessToken \notin retired
         /\ (last.op = "refresh" /\ last.err = "ok" /\ last.arg = r
             /\ last.resp.access_token \in DOMAIN tokens)
              => tokens[last.resp.access_token].refreshToken = r

\* ---- C16 ----
RevokeReq(t) == [op |-> "revoke", client |-> "c1", arg |-> t, opt |-> NoOpt]

\* what C16 expects of the step in which the revoke of t by slot p looks t up
\* in the token map `store`
C16_Expect(p, t, store) ==
  t \notin DOMAIN store
    => /\ pc'[p] = "idle"
       /\ last' = [op |-> "revoke", arg |-> t, err |-> "ok", resp |-> EmptyMap]
       /\ tokens' = store
       /\ file' = file
       /\ revoked' = revoked

\* C16: the revoke of a token that is not in the store (after the load) ends
\* without an error and without a save: the token map and the token file are
\* as they were; and a revoke of t on the map a revoke of t has left changes
\* nothing, so revoking twice leaves what revoking once leaves.
C16_RevokeIdempotent ==
  [][\A p \in Procs, t \in Presentable :
       /\ (/\ pc[p] = "idle"
           /\ tokensLoaded
           /\ Serves(p, "revoke", t)
           /\ Begin(p, RevokeReq(t))) => C16_Expect(p, t, tokens)
       /\ (/\ pc[p] = "load_wait"
           /\ req[p] = RevokeReq(t)
           /\ LoadDone(p)) => C16_Expect(p, t, LoadInto(tokens, buf[p], now))
       /\ LET once == RevokeBody(t, tokens)
              twice == RevokeBody(t, once.tokens)
          IN  /\ twice.tokens = once.tokens
              /\ ~twice.save
              /\ twice.out.err = "ok"]_vars

\* a token that was never issued has been revoked without an error, after an
\* earlier revoke and with tokens left in the store and in the file
C16_Witness ==
  /\ last.op = "revoke"
  /\ last.err = "ok"
  /\ last.arg \notin DOMAIN issued
  /\ revoked # {}
  /\ tokens # EmptyMap
  /\ file.tokens = tokens

\* ---- C17 ----
\* C17: every answer of POST /oauth/revoke is 200 with an empty body: for a
\* token in the store, a token not in the store, a request without a token
\* and a revocation whose save fails.
C17_RevokeAlways200 ==
  last.op = "revoke_http" => last.resp = [status |-> 200, body |-> EmptyMap]

\* POST /oauth/revoke has answered a revocation whose save failed
C17_Witness ==
  /\ last.op = "revoke_http"
  /\ last.err = IOError
  /\ last.resp.status = 200
  /\ last.arg \in DOMAIN issued
  /\ last.arg \notin DOMAIN tokens
  /\ last.arg \in DOMAIN file.tokens

\* ---- C18 ----
IntrospectReq(t) == [op |-> "introspect", client |-> "c1", arg |-> t, opt |-> NoOpt]

Inactive == [status |-> 200, body |-> [active |-> FALSE]]

\* C18: every answer of POST /oauth/introspect is 200 with a body that has
\* active, the request without a token included, and active is true exactly
\* when verify has accepted the token.
C18_IntrospectNeverErrors ==
  last.op = "introspect"
    => /\ last.resp.status = 200
       /\ "active" \in DOMAIN last.resp.body
       /\ last.resp.body.active = (last.err = "ok")

\* what the endpoint does in the step in which the introspection of t
\* by slot p has the token map `store` checked
IntrospectExpect(p, t, store) ==
  LET live == /\ t \in DOMAIN store
              /\ store[t].type = "access"
              /\ ~(store[t].expiresAt < now)
  IN  /\ live => /\ pc'[p] = "idle"
                 /\ last'.op = "introspect" /\ last'.arg = t
                 /\ last'.resp.status = 200
                 /\ last'.resp.body.active = TRUE
                 /\ last'.resp.body.client_id = store[t].clientId
                 /\ last'.resp.body.scope = Join(store[t].scopes)
                 /\ last'.resp.body.aud = store[t].resource
      /\ (t \notin DOMAIN store \/ (t \in DOMAIN store /\ store[t].type = "refresh"))
           => /\ pc'[p] = "idle"
              /\ last'.op = "introspect" /\ last'.arg = t
              /\ last'.resp = Inactive
      /\ (~live /\ t \in DOMAIN store /\ store[t].type = "access")
           => /\ pc'[p] = "mkdir"
              /\ ret'[p].resp = Inactive

\* what POST /oauth/introspect does: with a token it answers 200 with active
\* true exactly when verify accepts the token, and 200 with active false for
\* an unknown, an expired and a refresh token, also when the save of the
\* expiry deletion fails; without a token it answers 400 with the error
\* 'Token is required'.
IntrospectAnswers ==
  [][\A p \in Procs :
       /\ \A t \in Presentable :
            /\ (/\ pc[p] = "idle"
                /\ tokensLoaded
                /\ Serves(p, "introspect", t)
                /\ Begin(p, IntrospectReq(t))) => IntrospectExpect(p, t, tokens)
            /\ (/\ pc[p] = "load_wait"
                /\ req[p] = IntrospectReq(t)
                /\ LoadDone(p)) => IntrospectExpect(p, t, LoadInto(tokens, buf[p], now))
       /\ (/\ pc[p] \in {"mkdir", "open", "write"}
           /\ req[p].op = "introspect"
           /\ (WriteDone(p) \/ SaveFail(p)))
            => last'.op = "introspect" /\ last'.resp = Inactive
       /\ EndpointNoToken(p, "introspect")
            => /\ last'.resp.status = 400
               /\ last'.resp.body = [error |-> "Token is required"]
               /\ tokens' = tokens]_vars

\* ---- C19 ----
\* C19: when loadTokens has filled the map, no token of the map is past its
\* expiry, and filling the map once more from the same file at the same
\* instant gives the same map.
C19_LoadSweepsExpired ==
  [][\A p \in Procs :
       (pc[p] = "load_wait" /\ LoadDone(p))
         => LET filled == LoadInto(tokens, buf[p], now)
            IN  /\ \A k \in DOMAIN filled : ~(filled[k].expiresAt < now)
                /\ LoadInto(filled, buf[p], now) = filled]_vars

\* ---- C20 ----
\* C20: when the save of an exchange, a refresh, a revoke or the expiry
\* deletion of a verify fails, the caller gets the error, the token file is
\* as the failed call left it, and the token map holds the whole change of the operation: the
\* tokens it minted are in the map as minted (a minted access token is
\* accepted by verify until it expires, its refresh token names it), the tokens it removed are not, and the exchanged code is consumed.
C20_FailedSaveKeepsMemory ==
  [][\A p \in Procs :
       (/\ pc[p] \in {"mkdir", "open", "write"}
        /\ req[p].op \in {"exchange", "refresh", "revoke", "verify"}
        /\ SaveFail(p))
       => /\ last'.op = req[p].op /\ last'.arg = req[p].arg
          /\ last'.err = IOError
          /\ last'.resp = EmptyMap
          /\ file' = file
          /\ tokens' = tokens
          /\ \A k \in DOMAIN ret[p].minted :
               /\ k \in DOMAIN tokens'
               /\ tokens'[k] = ret[p].minted[k]
               /\ tokens'[k].type = "access"
                    => /\ ~(tokens'[k].expiresAt < now)
                            => VerifyBody(k, tokens', now).out.err = "ok"
                       /\ tokens'[k].refreshToken \in DOMAIN tokens'
                       /\ tokens'[tokens'[k].refreshToken].accessToken = k
          /\ \A k \in ret[p].gone : k \notin DOMAIN tokens'
          /\ req[p].op = "exchange" => req[p].arg \notin DOMAIN codes'
          /\ req[p].op \in {"revoke", "verify"} => req[p].arg \notin DOMAIN tokens']_vars

\* the save of an exchange has failed: the pair is in the map, not in the file
C20_Witness ==
  /\ last.op = "exchange"
  /\ last.err = IOError
  /\ tokens # EmptyMap
  /\ ~file.exists
  /\ \E k \in DOMAIN tokens : VerifyBody(k, tokens, now).out.err = "ok"

\* ---- C21 ----
\* C21: when the process stops, at whatever point of a save, the token file
\* that is left holds a complete document: it is never cut short and never a
\* mix of two documents.
C21_NeverPartial ==
  [][restarts' # restarts => (file'.exists => file'.whole)]_vars

\* ---- C22 ----
\* C22: within one life of the process, no step of a register or get call
\* changes or removes the record the registry holds under a client_id.
C22_ClientImmutable ==
  [][restarts' = restarts
       => \A id \in DOMAIN clients :
            id \in DOMAIN clients' /\ clients'[id] = clients[id]]_vars

\* ---- C23 ----
\* C23: the registry never holds, and the client file never contains, a client
\* with an empty redirect_uris list or without a grant type, and no register
\* call with such metadata returns the client.
C23_RegisterValidates ==
  /\ \A id \in DOMAIN clients :
       Len(clients[id].redirect_uris) > 0 /\ clients[id].grant_types # {}
  /\ \A id \in DOMAIN clientFile.clients :
       /\ Len(clientFile.clients[id].redirect_uris) > 0
       /\ clientFile.clients[id].grant_types # {}
  /\ \A id \in DOMAIN registered :
       Len(registered[id].redirect_uris) > 0 /\ registered[id].grant_types # {}

\* ---- C24 ----
\* C24: when no register or get call is in flight and the registry has been
\* loaded, the client file is a complete document that holds exactly the
\* clients of the registry.
C24_ClientFileMatches ==
  ((\A p \in Procs : pc[p] = "idle") /\ loaded /\ clients # EmptyMap)
    => clientFile.exists /\ clientFile.whole /\ clientFile.clients = clients

\* ---- C25 ----
\* C25: authorize redirects to the redirect_uri of the authorization request,
\* with the code it has just issued as parameter, and with the state of the
\* request when it has one and no state parameter when it has none.
C25_RedirectsToRequestUri ==
  [][\A a \in AuthRequests :
       (nextCode' = nextCode + 1 /\ AuthorizeRequest(a))
         => /\ ~redirect'.threw
            /\ redirect'.location = a.redirectUri
            /\ redirect'.code = nextCode /\ nextCode \in DOMAIN codes'
            /\ redirect'.hasState = (a.state # NoState)
            /\ redirect'.hasState => redirect'.state = a.state]_vars

\* ---- C26 ----
\* C26: a restart of the process empties the code store and writes no file;
\* the only code that ever enters the code store is the one authorize has just
\* issued, so no code issued before a restart is in the store after it; an
\* exchange of a code that is not in the store fails with InvalidGrant and
\* mints nothing; and what the token file holds are tokens, never codes.
C26_CodesInMemoryOnly ==
  [][/\ restarts' # restarts => (codes' = EmptyMap /\ file' = file)
     /\ \A c \in DOMAIN codes' :
          c \in DOMAIN codes \/ (c = nextCode /\ restarts' = restarts)
     /\ \A p \in Procs, cl \in Clients, c \in 0 .. (nextCode - 1) :
          (/\ pc[p] = "idle" /\ c \notin DOMAIN codes
           /\ Serves(p, "exchange", c) /\ Exchange(p, cl, c))
            => /\ last'.op = "exchange" /\ last'.arg = c
               /\ last'.err \in InvalidGrant
               /\ tokens' = tokens /\ nextId' = nextId
     /\ \A k \in DOMAIN file'.tokens :
          /\ file'.tokens[k].type \in {"access", "refresh"}
          /\ \E q \in Procs : k \in DOMAIN snap[q] \/ k \in DOMAIN file.tokens]_vars

\* after a restart, the exchange of code 1, which was issued before it, was
\* never exchanged and has not timed out, has failed
C26_Witness ==
  /\ restarts = 1
  /\ 1 \in DOMAIN codeAt /\ now < codeAt[1] + CodeTTL
  /\ UseCount(1) = 0
  /\ last.op = "exchange" /\ last.arg = 1 /\ last.err = "Invalid authorization code"
  /\ codes = EmptyMap
  /\ \A p \in Procs : pc[p] = "idle"

C28_McpGated ==
  [][(last' # last /\ last'.op = "mcp" /\ last'.resp.handled)
       => /\ last'.arg \in DOMAIN tokens'
          /\ tokens'[last'.arg].type = "access"
          /\ ~(tokens'[last'.arg].expiresAt < now')
          /\ last'.arg \notin revoked \cup retired \cup expired]_vars

\* ---- C29 ----
\* what a load at the instant t keeps of a token map
Kept(m, t) == [k \in {x \in DOMAIN m : m[x].expiresAt > t} |-> m[k]]

\* C29: whenever no request is in flight and the tokens have been loaded, the
\* token file is a complete document, or there is none and the map is empty,
\* and what a load would keep of the file is what it would keep of the token
\* map.
C29_FileMatchesMemory ==
  ((\A p \in Procs : pc[p] = "idle") /\ tokensLoaded)
    => /\ file.exists => file.whole
       /\ Kept(file.tokens, now) = Kept(tokens, now)

\* ---- C30 ----
\* C30: in every state, an access token of the store whose refresh token is
\* in the store is the access token that refresh token names, and a refresh
\* token of the store whose access token is in the store is the refresh token
\* that access token names.
C30_MutualLinks ==
  \A k \in DOMAIN tokens :
    /\ (tokens[k].type = "access" /\ tokens[k].refreshToken \in DOMAIN tokens)
         => /\ tokens[tokens[k].refreshToken].type = "refresh"
            /\ tokens[tokens[k].refreshToken].accessToken = k
    /\ (tokens[k].type = "refresh" /\ tokens[k].accessToken \in DOMAIN tokens)
         => /\ tokens[tokens[k].accessToken].type = "access"
            /\ tokens[tokens[k].accessToken].refreshToken = k

\* ---- C31 ----
\* C31: every issued authorization code is eventually removed from the code
\* store.  A code leaves the store only by its successful exchange, by its
\* timer callback, or with the process; an exchange that fails leaves it in
\* the store, and the timer removes it all the same.
C31_CodeEventuallyRemoved ==
  /\ \A c \in 1 .. MaxCodes : (c \in DOMAIN codes) ~> (c \notin DOMAIN codes)
  /\ [][\A c \in DOMAIN codes :
          /\ c \notin DOMAIN codes'
               => \/ CodeTimeout(c)
                  \/ restarts' # restarts
                  \/ /\ pc[1] = "idle" /\ pc'[1] = "mkdir"
                     /\ req'[1].op = "exchange" /\ req'[1].arg = c
                     /\ ret'[1].err = "ok"
          /\ \A cl \in Clients :
               (pc[1] = "idle" /\ pc'[1] = "idle" /\ Exchange(1, cl, c))
                 => c \in DOMAIN codes']_vars

\* the timer has removed a code whose only exchange had been refused
C31_Witness ==
  /\ last.op = "exchange"
  /\ last.err = "Authorization code was not issued to this client"
  /\ last.arg \notin DOMAIN codes
  /\ UseCount(last.arg) = 0
  /\ restarts = 0
  /\ now >= codeAt[last.arg] + CodeTTL
\* ---- C32 ----
\* C32: with the resource validator installed, every access token verify
\* accepts has a resource the validator accepts, whatever exchanges and
\* refreshes (with or without a resource argument) came before.
C32_AcceptedResourceValid ==
  (strictResource /\ last.op = "verify" /\ last.err = "ok")
    => ValidateResource(last.resp.resource)
\* ---- C33 ----
\* the scopes of a scopes array, as a set
ScopeSet(scopes) == {scopes[i] : i \in 1 .. Len(scopes)}

\* C33: no scope escalation on refresh.  Every access token minted by a
\* refresh (an access token that is not the one its refresh token was issued
\* with) has scopes among those the refresh token was granted at the exchange.
C33_NoScopeEscalation ==
  \A t \in DOMAIN issued :
    (/\ issued[t].type = "access"
     /\ issued[t].refreshToken \in DOMAIN issued
     /\ issued[issued[t].refreshToken].accessToken # t)
      => ScopeSet(issued[t].scopes) \subseteq ScopeSet(issued[issued[t].refreshToken].scopes)
\* ---- C34 ----
\* a token's data without its link to the other token of its pair
Grant(d) ==
  [clientId |-> d.clientId, scopes |-> d.scopes, resource |-> d.resource,
   expiresAt |-> d.expiresAt, type |-> d.type]

\* C34: a refresh leaves the refresh token's expiry, scopes, resource and
\* client as they are.  Every step that mints tokens gives an access token an
\* expiry of at most now + 3600 s and a refresh token (minted by an exchange
\* only) the expiry now + 30 days; a refresh mints no later than the expiry of
\* its refresh token; and every refresh token in the store has the expiry,
\* scopes, resource and client it was issued with.
C34_RefreshKeepsGrant ==
  [][\A p \in Procs :
       (pc[p] \in {"idle", "load_wait"} /\ pc'[p] = "mkdir" /\ nextId' # nextId) =>
         LET store == IF pc[p] = "load_wait" THEN LoadInto(tokens, buf[p], now)
                                             ELSE tokens
         IN  /\ \A k \in nextId .. (nextId' - 1) :
                  /\ k \in DOMAIN tokens'
                  /\ tokens'[k].type = "access" => tokens'[k].expiresAt <= now + AccessTTL
                  /\ tokens'[k].type = "refresh"
                       => /\ req'[p].op = "exchange"
                          /\ tokens'[k].expiresAt = now + RefreshTTL
             /\ req'[p].op = "refresh"
                  => /\ req'[p].arg \in DOMAIN store
                     /\ req'[p].arg \in DOMAIN tokens'
                     /\ Grant(tokens'[req'[p].arg]) = Grant(store[req'[p].arg])
                     /\ tokens'[nextId].refreshToken = req'[p].arg
                     /\ now <= store[req'[p].arg].expiresAt
             /\ \A r \in (DOMAIN tokens') \cap (DOMAIN issued) :
                  Grant(tokens'[r]) = Grant(issued[r])]_vars

\* a refresh has succeeded at the instant its refresh token expires, 30 days
\* after the exchange, and the refresh token is as it was issued
C34_Witness ==
  /\ last.op = "refresh"
  /\ last.err = "ok"
  /\ last.arg \in DOMAIN tokens
  /\ last.arg \in DOMAIN issued
  /\ now = issued[last.arg].expiresAt
  /\ now = RefreshTTL
  /\ tokens[last.arg].expiresAt = RefreshTTL
  /\ issued[last.resp.access_token].expiresAt = now + AccessTTL
\* ---- C35 ----
\* C35: the expiry boundary is the same at load and at read.  At every clock
\* value, loadTokens drops a token of the file exactly when verify (for an
\* access token) or refresh (for a refresh token) rejects that token as
\* expired.
C35_SameBoundary ==
  \A k \in DOMAIN file.tokens :
    LET d == file.tokens[k]
        one == (k :> d)
    IN  (k \notin LoadedKeys(file, now))
          <=> IF d.type = "access"
                THEN VerifyBody(k, one, now).out.err \in TokenExpired
                ELSE RefreshBody(d.clientId, k, NoOpt, one, nextId, now).out.err
                       = "Refresh token expired"
\* ---- C36 ----
\* the session id names a session that has been initialized and not closed
OpenSession(id) == id \in DOMAIN sessions /\ sessions[id] = "open"

\* C36: the session map holds a session id exactly between the session's
\* initialization and its close, and a request naming no open session is
\* answered 400 and changes nothing: a POST with a session id that is not an
\* open session or with no session id and a body that is not an initialize
\* request, a GET or DELETE with a session id that is not an open session or
\* with none; a closed session is not an open session.
C36_SessionMap ==
  /\ [](transports = {id \in DOMAIN sessions : sessions[id] = "open"})
  /\ [][\A p \in Procs, r \in SessionRequests :
          (/\ pc[p] = "idle"
           /\ SessionBegin(p, r)
           /\ \/ r.arg # NoHeader /\ ~OpenSession(r.arg)
              \/ r.arg = NoHeader /\ ~(r.method = "POST" /\ r.init))
            => /\ last'.op = "session"
               /\ last'.arg = r.arg
               /\ last'.resp.status = 400
               /\ pc' = pc
               /\ transports' = transports
               /\ sessions' = sessions]_vars
\* ---- C37 ----
\* C37: getAccessToken returns the cached credential without a network call
\* exactly when a credential is cached and the clock is before the recorded
\* expiry, and otherwise starts a fetch; a fetch that succeeds records the
\* credential with the expiry fetch start + (expires_in - 60) s; a fetch that
\* fails leaves the credential and its expiry as they were and the caller of
\* getAccessToken gets an error.
C37_CredentialCache ==
  [][/\ \A r \in ApiRequests :
          (r.op = "token" /\ pc[1] = "idle" /\ ApiBegin(1, r)) =>
            IF cachedToken # NoCredential /\ now < tokenExpireTime
              THEN /\ net' = net
                   /\ pc'[1] = "idle"
                   /\ last'.op = "token" /\ last'.err = "ok"
                   /\ last'.resp.access_token = cachedToken
              ELSE /\ net' = Append(net, [call |-> "token", by |-> 1])
                   /\ pc'[1] = "tk_fetch"
                   /\ req'[1].start = now
     /\ \A resp \in TokenResponses :
          (pc[1] = "tk_fetch" /\ TokenResponse(1, resp)) =>
            IF resp.kind = "ok"
              THEN /\ cachedToken' = resp.access_token
                   /\ tokenExpireTime' = req[1].start + (resp.expires_in - 60)
                   /\ req[1].op = "token"
                        => last'.err = "ok" /\ last'.resp.access_token = resp.access_token
              ELSE /\ cachedToken' = cachedToken
                   /\ tokenExpireTime' = tokenExpireTime
                   /\ req[1].op = "token"
                        => pc'[1] = "idle" /\ last'.op = "token" /\ last'.err # "ok"]_vars

\* a fetch has failed at the instant the cached credential expired, and the
\* cache still holds the credential and its expiry
C37_Witness ==
  /\ last.op = "token"
  /\ last.err = "failed"
  /\ cachedToken # NoCredential
  /\ now = tokenExpireTime
  /\ tokenExpireTime = 7200 - 60
  /\ Len(net) = 2

\* ---- C38 ----
\* C38: publishArticle makes the submit call only in the step in which its
\* draft call returned without an error code, and only with draftOnly false;
\* with draftOnly true or absent it returns after the draft call without a
\* further call; for an app id starting with 'test_' it returns without any
\* network call.
C38_SubmitAfterDraft ==
  [][/\ (net' # net /\ net'[Len(net')].call = "submit")
          => /\ pc[1] = "pb_draft"
             /\ req[1].made[Len(req[1].made)] = "draft"
             /\ req'[1].draft.kind = "ok"
             /\ req[1].draftOnly = "false"
     /\ \A resp \in PostResponses :
          (pc[1] = "pb_draft" /\ DraftResponse(1, resp)) =>
            /\ (resp.kind = "ok" /\ req[1].draftOnly \in {"true", "undefined"})
                 => /\ net' = net
                    /\ pc'[1] = "idle"
                    /\ last'.op = "publish" /\ last'.err = "ok"
                    /\ last'.resp.draftOnly
                    /\ "submit" \notin {last'.resp.calls[i] : i \in 1 .. Len(last'.resp.calls)}
            /\ (resp.kind = "ok" /\ req[1].draftOnly = "false")
                 => net' = Append(net, [call |-> "submit", by |-> 1])
            /\ resp.kind # "ok"
                 => net' = net /\ pc'[1] = "idle" /\ last'.err # "ok"
     /\ \A r \in ApiRequests :
          (r.op = "publish" /\ pc[1] = "idle" /\ StartsWithTest(appId) /\ ApiBegin(1, r))
            => /\ net' = net
               /\ pc'[1] = "idle"
               /\ last'.op = "publish" /\ last'.err = "ok"
               /\ last'.resp.calls = <<>>]_vars

\* an article has been submitted after its draft, and its status asked for
C38_Witness ==
  /\ last.op = "publish"
  /\ last.err = "ok"
  /\ ~last.resp.draftOnly
  /\ last.resp.calls = <<"token", "draft", "submit", "status">>
====
